---- MODULE Spec2Model ----
(***************************************************************************)
(* Three-tier memory pool: ThreadCache -> CentralCache -> PageCache.       *)
(* Addresses are byte addresses (natural numbers), NULL is 0.              *)
(* mem maps the address of a block to the pointer stored in its first      *)
(* machine word; a word that was never written reads as 0 because          *)
(* PageCache::systemAlloc memsets every fresh mapping.                     *)
(***************************************************************************)
EXTENDS Integers, Sequences, FiniteSets, Bags, TLC

VARIABLES
    pc,               \* per thread: position inside allocate / deallocate
    frame,            \* per thread: locals of the call in progress
    freeList_,        \* ThreadCache::freeList_      (per thread, per class)
    freeListSize_,    \* ThreadCache::freeListSize_  (per thread, per class)
    centralFreeList_, \* CentralCache::centralFreeList_ (per class)
    locks_,           \* CentralCache::locks_           (per class)
    mem,              \* first word of every block that was ever written
    freeSpans_,       \* PageCache::freeSpans_  : numPages -> Span*
    spanMap_,         \* PageCache::spanMap_    : pageAddr -> Span*
    spans,            \* heap of Span descriptors : Span* -> Span
    brk,              \* OS: first page number not yet handed out by mmap
    crashed,          \* TRUE once a null Span* was dereferenced
    user,             \* bag of the allocations the users hold: [addr, size, tier]
    held,             \* spans (chains) handed to a page-tier (central-tier)
                      \* caller and not yet returned
    last,             \* the call that returned last, and its result
    carved,           \* spans that fetchRange carved: [start, size, n]
    clobbered,        \* addresses the allocator stored to inside a block a user held
    ops,              \* number of API calls started so far
    spanTrackers_,    \* MemoryPoolv2 CentralCache::spanTrackers_[0 .. spanCount_ - 1]
    delayCounts_,     \* MemoryPoolv2 CentralCache::delayCounts_ (per class)
    poolFreeList_,    \* MemoryPoolv1 MemoryPool::freeList_ (atomic head)
    slotNext,         \* MemoryPoolv1 Slot::next of every slot
    curSlot_,         \* MemoryPoolv1 MemoryPool::curSlot_
    slotPc,           \* per thread: position inside popFreeList / pushFreeList
    slotFrame,        \* per thread: oldHead, newHead, slot of the call in progress
    slotUser          \* per slot: how many callers hold it

vars == <<pc, frame, freeList_, freeListSize_, centralFreeList_, locks_, mem,
          freeSpans_, spanMap_, spans, brk, crashed, user, held, last,
          carved, clobbered, ops,
          spanTrackers_, delayCounts_,
          poolFreeList_, slotNext, curSlot_, slotPc, slotFrame, slotUser>>

threadVars  == <<freeList_, freeListSize_>>
centralVars == <<centralFreeList_, locks_>>
pageVars    == <<freeSpans_, spanMap_, spans, brk, crashed>>
\* the span-tracking CentralCache of MemoryPoolv2
trackVars   == <<spanTrackers_, delayCounts_>>
\* the fixed-slot MemoryPool of MemoryPoolv1
poolVars    == <<poolFreeList_, slotNext, curSlot_, slotPc, slotFrame, slotUser>>
variantVars == <<trackVars, poolVars>>

(***************************************************************************)
(* Program constants                                                       *)
(***************************************************************************)
NULL == 0
ALIGNMENT == 8
MAX_BYTES == 256 * 1024
FREE_LIST_SIZE == MAX_BYTES \div ALIGNMENT
PAGE_SIZE == 4096
SPAN_PAGES == 8
MAX_BATCH_SIZE == 4 * 1024
MAX_DELAY_COUNT == 48
threshold == 64

(***************************************************************************)
(* Bounds of the model                                                     *)
(***************************************************************************)
NumThreads == 2          \* threads calling allocate / deallocate
MaxOps == 4              \* API calls started in one behaviour
ArenaPages == 90         \* pages the OS is able to map before it denies
MaxGap == 1              \* pages the OS skips when a mapping is not adjacent
MaxSpanPages == 2        \* largest request of the page-tier driver
MaxPageOps == 6          \* page-tier calls in one behaviour of PageSpec
MaxSizeArg == 40         \* sizes within this distance of 0 and of MAX_BYTES
StressAllocs == 199      \* blocks the stress driver allocates before it frees
MaxBatch == 3            \* largest batchNum of the central-tier driver
MaxTrackOps == 7         \* fetchRange / returnRange calls on the tracking tier
MaxSlots == 3            \* slots the v1 pool carves from its blocks
MaxSlotOps == 9          \* allocate / deallocate calls on the v1 pool

Threads == 1..NumThreads
\* the v1 slots, by address
Slots == 1..MaxSlots
\* Request sizes the callers use: 32 has batch 64 and 1024 blocks in a
\* span, 16384 has batch 1 and 2 blocks in a span.
Sizes == {32, 16384}
\* The sizes of testEdgeCases that stay in the pool
EdgeSizes == {0, 1, MAX_BYTES}
BypassSizes == {MAX_BYTES + 1}
\* the size the stress driver asks for: (rand() % 1024 + 1) * 8 for one rand()
StressSizes == {1032}
\* the arguments SizeClass is applied to: the two ends of [0, MAX_BYTES]
SizeArgs == (0..MaxSizeArg) \cup ((MAX_BYTES - MaxSizeArg)..MAX_BYTES)

Min(S) == CHOOSE x \in S : \A y \in S : x <= y
Max2(a, b) == IF a >= b THEN a ELSE b
Min2(a, b) == IF a <= b THEN a ELSE b
Range(s) == {s[i] : i \in DOMAIN s}

(***************************************************************************)
(* SizeClass (Common.h)                                                    *)
(***************************************************************************)
\* (bytes + ALIGNMENT - 1) & ~(ALIGNMENT - 1): clear the low bits
roundUp(bytes) ==
    LET x == bytes + ALIGNMENT - 1 IN x - (x % ALIGNMENT)

\* a variant without std::max(bytes, ALIGNMENT)
getIndexNoMax(bytes) == (bytes + ALIGNMENT - 1) \div ALIGNMENT - 1

getIndex(bytes) ==
    LET b == Max2(bytes, ALIGNMENT) IN (b + ALIGNMENT - 1) \div ALIGNMENT - 1

\* the list index ThreadCache::allocate(size) works on
allocateIndex(size) ==
    LET sz == IF size = 0 THEN ALIGNMENT ELSE size IN getIndex(roundUp(sz))

\* the list index ThreadCache::deallocate(ptr, size) works on
deallocateIndex(size) == getIndex(size)

Classes == {getIndex(s) : s \in Sizes \cup EdgeSizes \cup StressSizes}

\* a variant whose tiers exclude their upper limit
getBatchNumOpenTiers(size) ==
    LET baseNum == IF size < 32 THEN 64
                   ELSE IF size < 64 THEN 32
                   ELSE IF size < 128 THEN 16
                   ELSE IF size < 256 THEN 8
                   ELSE IF size < 512 THEN 4
                   ELSE IF size < 1024 THEN 2
                   ELSE 1
        maxNum == Max2(1, MAX_BATCH_SIZE \div size)
    IN Max2(1, Min2(baseNum, maxNum))

\* a variant without the lower clamps
getBatchNumUnclamped(size) ==
    LET baseNum == IF size <= 32 THEN 64
                   ELSE IF size <= 64 THEN 32
                   ELSE IF size <= 128 THEN 16
                   ELSE IF size <= 256 THEN 8
                   ELSE IF size <= 512 THEN 4
                   ELSE IF size <= 1024 THEN 2
                   ELSE 1
        maxNum == MAX_BATCH_SIZE \div size
    IN Min2(baseNum, maxNum)

(***************************************************************************)
(* ThreadCache::getBatchNum                                                *)
(***************************************************************************)
getBatchNum(size) ==
    LET baseNum == IF size <= 32 THEN 64
                   ELSE IF size <= 64 THEN 32
                   ELSE IF size <= 128 THEN 16
                   ELSE IF size <= 256 THEN 8
                   ELSE IF size <= 512 THEN 4
                   ELSE IF size <= 1024 THEN 2
                   ELSE 1
        maxNum == Max2(1, MAX_BATCH_SIZE \div size)
    IN Max2(1, Min2(baseNum, maxNum))

(***************************************************************************)
(* Raw memory: *reinterpret_cast<void**>(p)                                *)
(***************************************************************************)
Read(m, a) == IF a \in DOMAIN m THEN m[a] ELSE NULL

\* f is a function from the addresses stored to, to the values stored
WriteAll(m, f) ==
    IF Cardinality(DOMAIN f) = 1 /\ DOMAIN f \subseteq DOMAIN m
    THEN LET a == CHOOSE x \in DOMAIN f : TRUE IN [m EXCEPT ![a] = f[a]]
    ELSE [a \in DOMAIN m \cup DOMAIN f |->
              IF a \in DOMAIN f THEN f[a] ELSE m[a]]

Write(m, a, v) ==
    IF a \in DOMAIN m THEN [m EXCEPT ![a] = v]
    ELSE [x \in DOMAIN m \cup {a} |-> IF x = a THEN v ELSE m[x]]

\* The nodes visited by following at most n - 1 links from h (h included),
\* stopping at the first null link.
RECURSIVE WalkN(_, _, _)
WalkN(m, h, n) ==
    IF h = NULL \/ n <= 0 THEN <<>>
    ELSE <<h>> \o WalkN(m, Read(m, h), n - 1)

(***************************************************************************)
(* std::map helpers                                                        *)
(***************************************************************************)
MapPut(f, k, v) == [x \in DOMAIN f \cup {k} |-> IF x = k THEN v ELSE f[x]]
MapDel(f, k) == [x \in DOMAIN f \ {k} |-> f[x]]
\* std::map::operator[] : a missing key is inserted with a null value
MapTouch(f, k) == IF k \in DOMAIN f THEN f ELSE MapPut(f, k, NULL)

(***************************************************************************)
(* PageCache.  A page-tier state is the record                             *)
(*   [freeSpans, spanMap, spans, brk, crashed].                            *)
(***************************************************************************)
PageState == [freeSpans |-> freeSpans_, spanMap |-> spanMap_, spans |-> spans,
              brk |-> brk, crashed |-> crashed]

\* new Span: a descriptor address that is not in use
NewSpanId(sp) == Min({i \in 1..(Cardinality(DOMAIN sp) + 1) : i \notin DOMAIN sp})

\* What the OS answers to one mmap call: whether it grants the mapping and
\* how many pages it skips after the previous mapping.
OsAnswers == [grant : BOOLEAN, gap : {0, MaxGap}]

\* PageCache::systemAlloc: mmap + memset.  Returns the address (NULL when
\* mmap failed) and the new OS break.
systemAlloc(b, numPages, os) ==
    LET base == b + os.gap IN
    IF os.grant /\ base + numPages <= ArenaPages + 1
    THEN [addr |-> base * PAGE_SIZE, brk |-> base + numPages]
    ELSE [addr |-> NULL, brk |-> b]

\* a variant that forgets to shrink the span that is handed out
splitSpanNoShrink(sd, numPages) ==
    [span |-> sd,
     newSpan |-> [pageAddr |-> sd.pageAddr + numPages * PAGE_SIZE,
                  numPages |-> sd.numPages - numPages,
                  next |-> NULL]]

\* allocateSpan, the split of a free span sd that is larger than numPages:
\* the descriptor that is handed out and the descriptor of the remainder
splitSpan(sd, numPages) ==
    [span |-> [sd EXCEPT !.numPages = numPages],
     newSpan |-> [pageAddr |-> sd.pageAddr + numPages * PAGE_SIZE,
                  numPages |-> sd.numPages - numPages,
                  next |-> NULL]]

\* a variant that leaves the chosen span linked
unlinkHeadKeep(fs, k, sd) == fs

\* allocateSpan, taking the head sd out of the list of key k: the next span
\* becomes the head, or the key is erased when there is none
unlinkHead(fs, k, sd) ==
    IF sd.next # NULL
    THEN [fs EXCEPT ![k] = sd.next]
    ELSE MapDel(fs, k)

\* PageCache::allocateSpan, the whole function under mutex_
allocateSpan(ps, numPages, os) ==
    LET keys == {k \in DOMAIN ps.freeSpans : k >= numPages} IN
    IF keys # {}
    THEN
        LET k == Min(keys)                       \* lower_bound(numPages)
            span == ps.freeSpans[k]
        IN
        IF span = NULL
        THEN \* span->next on a null Span*: the process faults
             [ps |-> [ps EXCEPT !.crashed = TRUE], ret |-> NULL]
        ELSE
        LET sd == ps.spans[span]
            fs1 == unlinkHead(ps.freeSpans, k, sd)
            split == sd.numPages > numPages
            newSpan == NewSpanId(ps.spans)
            newPages == splitSpan(sd, numPages).newSpan.numPages
            fs2 == IF split
                   THEN MapPut(fs1, newPages, newSpan)
                   ELSE fs1
            cut == splitSpan(sd, numPages)
            sp1 == IF split
                   THEN MapPut([ps.spans EXCEPT ![span] = cut.span],
                               newSpan,
                               [cut.newSpan EXCEPT
                                   !.next = MapTouch(fs1, newPages)[newPages]])
                   ELSE ps.spans
        IN [ps |-> [ps EXCEPT !.freeSpans = fs2,
                              !.spans = sp1,
                              !.spanMap = MapPut(ps.spanMap, sd.pageAddr, span)],
            ret |-> sd.pageAddr]
    ELSE
        LET r == systemAlloc(ps.brk, numPages, os) IN
        IF r.addr = NULL
        THEN [ps |-> ps, ret |-> NULL]
        ELSE
        LET span == NewSpanId(ps.spans) IN
        [ps |-> [ps EXCEPT !.brk = r.brk,
                           !.spans = MapPut(ps.spans, span,
                                            [pageAddr |-> r.addr,
                                             numPages |-> numPages,
                                             next |-> NULL]),
                           !.spanMap = MapPut(ps.spanMap, r.addr, span)],
         ret |-> r.addr]

\* The predecessor of target in the Span list starting at prev, NULL if
\* target is not linked behind prev (the while loop of deallocateSpan).
RECURSIVE FindPrev(_, _, _)
FindPrev(sp, prev, target) ==
    IF sp[prev].next = NULL THEN NULL
    ELSE IF sp[prev].next = target THEN prev
    ELSE FindPrev(sp, sp[prev].next, target)

\* a variant that trusts its caller: an address without a spanMap_ entry is
\* taken for a span of numPages pages and linked into freeSpans_
deallocateSpanUnchecked(ps, ptr, numPages) ==
    LET span == NewSpanId(ps.spans)
        fs == MapTouch(ps.freeSpans, numPages)
    IN [ps EXCEPT !.freeSpans = [fs EXCEPT ![numPages] = span],
                  !.spans = MapPut(ps.spans, span,
                                   [pageAddr |-> ptr, numPages |-> numPages,
                                    next |-> fs[numPages]]),
                  !.spanMap = MapPut(ps.spanMap, ptr, span)]

\* PageCache::deallocateSpan, the whole function under mutex_
deallocateSpan(ps, ptr, numPages) ==
    IF ptr \notin DOMAIN ps.spanMap THEN ps
    ELSE
    LET span == ps.spanMap[ptr]
        nextAddr == ptr + numPages * PAGE_SIZE
        hasNext == nextAddr \in DOMAIN ps.spanMap
        nextSpan == ps.spanMap[nextAddr]
        nk == ps.spans[nextSpan].numPages
        fs0 == MapTouch(ps.freeSpans, nk)        \* auto& nextList = freeSpans_[..]
        nextList == fs0[nk]
        isHead == nextList = nextSpan
        prev == IF ~isHead /\ nextList # NULL
                THEN FindPrev(ps.spans, nextList, nextSpan)
                ELSE NULL
        found == isHead \/ prev # NULL
        \* after the neighbour probe
        fs1 == IF ~hasNext THEN ps.freeSpans
               ELSE IF isHead THEN [fs0 EXCEPT ![nk] = ps.spans[nextSpan].next]
               ELSE fs0
        sp1 == IF hasNext /\ ~isHead /\ prev # NULL
               THEN [ps.spans EXCEPT ![prev].next = ps.spans[nextSpan].next]
               ELSE ps.spans
        merge == hasNext /\ found
        sp2 == IF merge
               THEN MapDel([sp1 EXCEPT ![span].numPages = @ + nk], nextSpan)
               ELSE sp1
        sm2 == IF merge THEN MapDel(ps.spanMap, nextAddr) ELSE ps.spanMap
        \* head insertion of the (possibly merged) span
        key == sp2[span].numPages
        fs2 == MapTouch(fs1, key)
    IN [ps EXCEPT !.freeSpans = [fs2 EXCEPT ![key] = span],
                  !.spans = [sp2 EXCEPT ![span].next = fs2[key]],
                  !.spanMap = sm2]

\* a variant that always asks for the pages one block needs
fetchFromPageCacheExact(ps, size, os) ==
    allocateSpan(ps, (size + PAGE_SIZE - 1) \div PAGE_SIZE, os)

\* a variant that asks for SPAN_PAGES pages whatever the block size
fetchFromPageCacheFixed(ps, size, os) ==
    allocateSpan(ps, SPAN_PAGES, os)

(***************************************************************************)
(* CentralCache: the bodies of the critical sections                       *)
(***************************************************************************)
\* CentralCache::fetchFromPageCache
fetchFromPageCache(ps, size, os) ==
    LET numPages == (size + PAGE_SIZE - 1) \div PAGE_SIZE IN
    IF size <= SPAN_PAGES * PAGE_SIZE
    THEN allocateSpan(ps, SPAN_PAGES, os)
    ELSE allocateSpan(ps, numPages, os)

\* a variant that leaves room for a 4-byte header behind every block
blockSizeWithHeader(index) == (index + 1) * ALIGNMENT + 4

\* fetchRange: the size of one block of class index
blockSize(index) == (index + 1) * ALIGNMENT

\* a variant that leaves the returned chain linked to the remainder
fetchRangeCarveUnterminated(start, index, batchNum) ==
    LET size == blockSize(index)
        totalBlocks == (SPAN_PAGES * PAGE_SIZE) \div size
        allocBlocks == Min2(batchNum, totalBlocks)
        all == IF totalBlocks > 1
               THEN [a \in {start + (i - 1) * size : i \in 1..totalBlocks} |->
                        IF a = start + (totalBlocks - 1) * size
                        THEN NULL ELSE a + size]
               ELSE <<>>
    IN [stores |-> all,
        setHead |-> totalBlocks > allocBlocks,
        head |-> start + allocBlocks * size,
        totalBlocks |-> totalBlocks]

\* fetchRange, central list empty, span obtained at address start:
\* the stores that cut the span into the returned chain and the remainder.
\* stores is a function address -> value; head is the new list head.
fetchRangeCarve(start, index, batchNum) ==
    LET size == blockSize(index)
        totalBlocks == (SPAN_PAGES * PAGE_SIZE) \div size
        allocBlocks == Min2(batchNum, totalBlocks)
        first == IF allocBlocks > 1
                 THEN [a \in {start + (i - 1) * size : i \in 1..allocBlocks} |->
                          IF a = start + (allocBlocks - 1) * size
                          THEN NULL ELSE a + size]
                 ELSE <<>>
        rest == IF totalBlocks > allocBlocks
                THEN [a \in {start + (i - 1) * size :
                                 i \in (allocBlocks + 1)..totalBlocks} |->
                          IF a = start + (totalBlocks - 1) * size
                          THEN NULL ELSE a + size]
                ELSE <<>>
    IN [stores |-> [a \in DOMAIN first \cup DOMAIN rest |->
                        IF a \in DOMAIN first THEN first[a] ELSE rest[a]],
        setHead |-> totalBlocks > allocBlocks,
        head |-> start + allocBlocks * size,
        totalBlocks |-> totalBlocks]

\* a variant that stores the old head back as the list head
fetchRangeDetachKeepHead(m, result, batchNum) ==
    LET walked == WalkN(m, result, batchNum)
        prev == walked[Len(walked)]
    IN [stores |-> [a \in {prev} |-> NULL], head |-> result]

\* fetchRange, central list not empty (result is its head): detach at most
\* batchNum blocks.
fetchRangeDetach(m, result, batchNum) ==
    LET walked == WalkN(m, result, batchNum)
        prev == walked[Len(walked)]
        current == Read(m, prev)
    IN [stores |-> [a \in {prev} |-> NULL], head |-> current]

\* returnRange: the block the splice is attached to.  count starts at 1
\* and the walk goes on while the link is not null and count < size.
returnRangeEnd(m, start, size) ==
    LET walked == WalkN(m, start, Max2(size, 1)) IN walked[Len(walked)]

(***************************************************************************)
(* ThreadCache helpers                                                     *)
(***************************************************************************)
shouldReturnToCentralCache(fls, index) == fls[index] > threshold

\* a variant that updates the head before it links the block
pushFrontHeadFirst(m, fl, index, ptr) ==
    [mem |-> Write(m, ptr, ptr),
     fl |-> [fl EXCEPT ![index] = ptr]]

\* ThreadCache::deallocate, the push of ptr on the list of its class
pushFront(m, fl, index, ptr) ==
    [mem |-> Write(m, ptr, fl[index]),
     fl |-> [fl EXCEPT ![index] = ptr]]

\* a variant that hands the front of the list to returnRange and keeps the
\* blocks behind the split
returnToCentralCacheKeepTail(m, fl, fls, start, size) ==
    LET index == getIndex(size)
        alignedSize == roundUp(size)
        batchNum == fls[index]
        keepNum == Max2(batchNum \div 4, 1)
        returnNum == batchNum - keepNum
        walked == WalkN(m, start, keepNum)
        splitNode == IF Len(walked) = keepNum THEN walked[keepNum] ELSE NULL
        nextNode == Read(m, splitNode)
    IN
    IF batchNum <= 1 \/ splitNode = NULL
    THEN [mem |-> m, fl |-> fl, fls |-> fls, stores |-> {},
          call |-> FALSE, rstart |-> NULL, rsize |-> 0, index |-> index]
    ELSE [mem |-> Write(m, splitNode, NULL),
          fl |-> [fl EXCEPT ![index] = nextNode],
          fls |-> [fls EXCEPT ![index] = keepNum],
          stores |-> {splitNode},
          call |-> returnNum > 0 /\ nextNode # NULL,
          rstart |-> start,
          rsize |-> returnNum * alignedSize,
          index |-> index]

\* ThreadCache::returnToCentralCache up to the call of returnRange.
\* fl, fls are the calling thread's arrays.  call tells whether returnRange
\* is invoked, with arguments (rstart, rsize, index).
returnToCentralCache(m, fl, fls, start, size) ==
    LET index == getIndex(size)
        alignedSize == roundUp(size)
        batchNum == fls[index]
        keepNum == Max2(batchNum \div 4, 1)
        returnNum == batchNum - keepNum
        walked == WalkN(m, start, keepNum)
        splitNode == IF Len(walked) = keepNum THEN walked[keepNum] ELSE NULL
        nextNode == Read(m, splitNode)
    IN
    IF batchNum <= 1 \/ splitNode = NULL
    THEN [mem |-> m, fl |-> fl, fls |-> fls, stores |-> {},
          call |-> FALSE, rstart |-> NULL, rsize |-> 0, index |-> index]
    ELSE [mem |-> Write(m, splitNode, NULL),
          fl |-> [fl EXCEPT ![index] = start],
          fls |-> [fls EXCEPT ![index] = keepNum],
          stores |-> {splitNode},
          call |-> returnNum > 0 /\ nextNode # NULL,
          rstart |-> nextNode,
          rsize |-> returnNum * alignedSize,
          index |-> index]

\* a variant that installs the chain without counting it
fetchFromCentralCacheTailUncounted(m, fl, fls, index, batchNum, start) ==
    [fls |-> fls,
     fl |-> IF batchNum > 1 THEN [fl EXCEPT ![index] = Read(m, start)] ELSE fl]

\* a variant that installs the whole chain, the returned block included
fetchFromCentralCacheTailWhole(m, fl, fls, index, batchNum, start) ==
    [fls |-> [fls EXCEPT ![index] = @ + batchNum],
     fl |-> IF batchNum > 1 THEN [fl EXCEPT ![index] = start] ELSE fl]

\* ThreadCache::fetchFromCentralCache after fetchRange returned start # NULL
fetchFromCentralCacheTail(m, fl, fls, index, batchNum, start) ==
    [fls |-> [fls EXCEPT ![index] = @ + batchNum],
     fl |-> IF batchNum > 1 THEN [fl EXCEPT ![index] = Read(m, start)] ELSE fl]

(***************************************************************************)
(* Host allocator used by the bypass path (malloc / free)                  *)
(***************************************************************************)
HostBase == (ArenaPages + 2) * PAGE_SIZE

\* The byte range a user owns for a request of s bytes at address a
Extent(s) == IF s = 0 THEN ALIGNMENT ELSE s

malloc(u, size) ==
    LET hostBlocks == {b \in BagToSet(u) : b.tier = "host"}
        cands == {HostBase} \cup {roundUp(b.addr + b.size) : b \in hostBlocks}
    IN Min({c \in cands : \A b \in hostBlocks :
                c + size <= b.addr \/ b.addr + b.size <= c})

\* The users' bag after allocate returned p / after deallocate was given b
Give(u, p, size, tier) == u (+) SetToBag({[addr |-> p, size |-> size, tier |-> tier]})
Take(u, b) == u (-) SetToBag({b})

\* The addresses among stores that lie in a block held by a user in u
Clobber(stores, u) ==
    {w \in stores : \E b \in BagToSet(u) :
        b.tier = "pool" /\ b.addr <= w /\ w < b.addr + Extent(b.size)}

\* What a user stores in the first word of a block it owns; not an address
UserData == -1

\* MemoryPoolv2 CentralCache::CentralCache: no tracker in use, counters zero
TrackInit ==
    /\ spanTrackers_ = <<>>
    /\ delayCounts_ = [i \in Classes |-> 0]

\* MemoryPoolv1 MemoryPool::MemoryPool / init: empty free list, no block yet
NoSlotFrame == [oldHead |-> NULL, newHead |-> NULL, slot |-> NULL]

PoolInit ==
    /\ poolFreeList_ = NULL
    /\ slotNext = [s \in Slots |-> NULL]
    /\ curSlot_ = 1
    /\ slotPc = [t \in Threads |-> "idle"]
    /\ slotFrame = [t \in Threads |-> NoSlotFrame]
    /\ slotUser = [s \in Slots |-> 0]

(***************************************************************************)
(* Initial state                                                           *)
(***************************************************************************)
NoFrame == [size |-> 0, index |-> 0, batchNum |-> 0, start |-> NULL, rsize |-> 0]
NoCall == [t |-> 0, op |-> "none", size |-> 0, ret |-> NULL, denied |-> FALSE]

Init ==
    /\ pc = [t \in Threads |-> "idle"]
    /\ frame = [t \in Threads |-> NoFrame]
    /\ freeList_ = [t \in Threads |-> [i \in Classes |-> NULL]]
    /\ freeListSize_ = [t \in Threads |-> [i \in Classes |-> 0]]
    /\ centralFreeList_ = [i \in Classes |-> NULL]
    /\ locks_ = [i \in Classes |-> FALSE]
    /\ mem = <<>>
    /\ freeSpans_ = <<>>
    /\ spanMap_ = <<>>
    /\ spans = <<>>
    /\ brk = 1
    /\ crashed = FALSE
    /\ user = EmptyBag
    /\ held = {}
    /\ last = NoCall
    /\ carved = {}
    /\ clobbered = {}
    /\ ops = 0
    /\ TrackInit
    /\ PoolInit

\* a variant of a release that leaves the flag set
keepSet(l, index) == l

\* locks_[index].clear() at the end of fetchRange and of returnRange
clear(l, index) == [l EXCEPT ![index] = FALSE]

\* locks_[index].clear() before fetchRange returns nullptr for a span that
\* the page tier refused
clearOnFailure(l, index) == [l EXCEPT ![index] = FALSE]

\* locks_[index].clear() in the catch (...) block before the rethrow
clearInCatch(l, index) == [l EXCEPT ![index] = FALSE]

Returned(t, op, size, ret, denied) ==
    last' = [t |-> t, op |-> op, size |-> size, ret |-> ret, denied |-> denied]

(***************************************************************************)
(* ThreadCache::allocate                                                   *)
(***************************************************************************)
\* size > MAX_BYTES: malloc
AllocateBypass(t, reqSize) ==
    LET size == IF reqSize = 0 THEN ALIGNMENT ELSE reqSize IN
    /\ pc[t] = "idle" /\ ops < MaxOps /\ ~crashed
    /\ size > MAX_BYTES
    /\ \E ok \in BOOLEAN :
         LET p == IF ok THEN malloc(user, size) ELSE NULL IN
         /\ user' = IF ok THEN Give(user, p, reqSize, "host") ELSE user
         /\ Returned(t, "allocate", reqSize, p, ~ok)
    /\ ops' = ops + 1
    /\ UNCHANGED <<pc, frame, threadVars, centralVars, mem, pageVars, held, carved,
                   clobbered>>
    /\ UNCHANGED variantVars

\* the thread's list of the class is not empty: pop its head
AllocateHit(t, reqSize) ==
    LET size == IF reqSize = 0 THEN ALIGNMENT ELSE reqSize
        alignedSize == roundUp(size)
        index == getIndex(alignedSize)
        ptr == freeList_[t][index]
    IN
    /\ pc[t] = "idle" /\ ops < MaxOps /\ ~crashed
    /\ size <= MAX_BYTES
    /\ ptr # NULL
    /\ freeListSize_' = [freeListSize_ EXCEPT ![t][index] = @ - 1]
    /\ freeList_' = [freeList_ EXCEPT ![t][index] = Read(mem, ptr)]
    /\ user' = Give(user, ptr, reqSize, "pool")
    /\ mem' = Write(mem, ptr, UserData)
    /\ Returned(t, "allocate", reqSize, ptr, FALSE)
    /\ ops' = ops + 1
    /\ UNCHANGED <<pc, frame, centralVars, pageVars, held, carved, clobbered>>
    /\ UNCHANGED variantVars

\* a variant that counts the batch before fetchRange has delivered it
AllocateMissCountFirst(t, reqSize) ==
    LET size == IF reqSize = 0 THEN ALIGNMENT ELSE reqSize
        alignedSize == roundUp(size)
        index == getIndex(alignedSize)
        batchNum == getBatchNum((index + 1) * ALIGNMENT)
    IN
    /\ pc[t] = "idle" /\ ops < MaxOps /\ ~crashed
    /\ size <= MAX_BYTES
    /\ freeList_[t][index] = NULL
    /\ ops' = ops + 1
    /\ freeListSize_' = [freeListSize_ EXCEPT ![t][index] = @ + batchNum]
    /\ pc' = [pc EXCEPT ![t] = "fetch_spin"]
    /\ frame' = [frame EXCEPT ![t] = [NoFrame EXCEPT !.size = reqSize,
                                        !.index = index,
                                        !.batchNum = batchNum]]
    /\ UNCHANGED <<freeList_, last, centralVars, mem, pageVars, user, held,
                   carved, clobbered>>
    /\ UNCHANGED variantVars

\* the list is empty: fetchFromCentralCache -> fetchRange, up to the spin
\* loop on locks_[index]
AllocateMiss(t, reqSize) ==
    LET size == IF reqSize = 0 THEN ALIGNMENT ELSE reqSize
        alignedSize == roundUp(size)
        index == getIndex(alignedSize)
        batchNum == getBatchNum((index + 1) * ALIGNMENT)
    IN
    /\ pc[t] = "idle" /\ ops < MaxOps /\ ~crashed
    /\ size <= MAX_BYTES
    /\ freeList_[t][index] = NULL
    /\ ops' = ops + 1
    /\ IF index >= FREE_LIST_SIZE \/ batchNum = 0
       THEN /\ Returned(t, "allocate", reqSize, NULL, FALSE)
            /\ UNCHANGED <<pc, frame>>
       ELSE /\ pc' = [pc EXCEPT ![t] = "fetch_spin"]
            /\ frame' = [frame EXCEPT ![t] = [NoFrame EXCEPT !.size = reqSize,
                                                !.index = index,
                                                !.batchNum = batchNum]]
            /\ UNCHANGED last
    /\ UNCHANGED <<threadVars, centralVars, mem, pageVars, user, held, carved,
                   clobbered>>
    /\ UNCHANGED variantVars

\* a variant with one lock, that of class 0, for all the size classes
FetchAcquireOneLock(t) ==
    /\ pc[t] = "fetch_spin"
    /\ ~locks_[0] /\ ~locks_[frame[t].index]
    /\ locks_' = [i \in Classes |->
                     IF i \in {0, frame[t].index} THEN TRUE ELSE locks_[i]]
    /\ pc' = [pc EXCEPT ![t] = "fetch_cs"]
    /\ UNCHANGED <<frame, threadVars, centralFreeList_, mem, pageVars, user,
                   held, last, carved, clobbered, ops>>
    /\ UNCHANGED variantVars

\* a variant that enters the critical section whatever test_and_set says
FetchAcquireNoWait(t) ==
    /\ pc[t] = "fetch_spin"
    /\ locks_' = [locks_ EXCEPT ![frame[t].index] = TRUE]
    /\ pc' = [pc EXCEPT ![t] = "fetch_cs"]
    /\ UNCHANGED <<frame, threadVars, centralFreeList_, mem, pageVars, user,
                   held, last, carved, clobbered, ops>>
    /\ UNCHANGED variantVars

\* test_and_set succeeded
FetchAcquire(t) ==
    /\ pc[t] = "fetch_spin"
    /\ ~locks_[frame[t].index]
    /\ locks_' = [locks_ EXCEPT ![frame[t].index] = TRUE]
    /\ pc' = [pc EXCEPT ![t] = "fetch_cs"]
    /\ UNCHANGED <<frame, threadVars, centralFreeList_, mem, pageVars, user,
                   held, last, carved, clobbered, ops>>
    /\ UNCHANGED variantVars

\* fetchRange has a block chain start for the thread (m is the memory it
\* left): the thread side of fetchFromCentralCache and the return of
\* allocate; the user then stores its data in the block
FetchFinish(t, m, start) ==
    LET f == frame[t]
        r == fetchFromCentralCacheTail(m, freeList_[t], freeListSize_[t],
                                       f.index, f.batchNum, start)
    IN
    /\ freeList_' = [freeList_ EXCEPT ![t] = r.fl]
    /\ freeListSize_' = [freeListSize_ EXCEPT ![t] = r.fls]
    /\ user' = Give(user, start, f.size, "pool")
    /\ mem' = Write(m, start, UserData)
    /\ Returned(t, "allocate", f.size, start, FALSE)
    /\ pc' = [pc EXCEPT ![t] = "idle"]
    /\ frame' = [frame EXCEPT ![t] = NoFrame]

\* critical section of fetchRange, list not empty
FetchFromList(t) ==
    LET index == frame[t].index
        result == centralFreeList_[index]
        d == fetchRangeDetach(mem, result, frame[t].batchNum)
        m1 == WriteAll(mem, d.stores)
    IN
    /\ pc[t] = "fetch_cs"
    /\ result # NULL
    /\ centralFreeList_' = [centralFreeList_ EXCEPT ![index] = d.head]
    /\ locks_' = clear(locks_, index)
    /\ clobbered' = clobbered \cup Clobber(DOMAIN d.stores, user)
    /\ FetchFinish(t, m1, result)
    /\ UNCHANGED <<pageVars, held, carved, ops>>
    /\ UNCHANGED variantVars

\* critical section of fetchRange, list empty: enter fetchFromPageCache
FetchEmpty(t) ==
    /\ pc[t] = "fetch_cs"
    /\ centralFreeList_[frame[t].index] = NULL
    /\ pc' = [pc EXCEPT ![t] = "fetch_page"]
    /\ UNCHANGED <<frame, threadVars, centralVars, mem, pageVars, user, held,
                   last, carved, clobbered, ops>>
    /\ UNCHANGED variantVars

\* allocateSpan returned; carve the span or give up
FetchPage(t) ==
    /\ pc[t] = "fetch_page" /\ ~crashed
    /\ \E os \in OsAnswers :
        LET index == frame[t].index
            size == blockSize(index)
            r == fetchFromPageCache(PageState, size, os)
            c == fetchRangeCarve(r.ret, index, frame[t].batchNum)
            m1 == WriteAll(mem, c.stores)
        IN
        /\ freeSpans_' = r.ps.freeSpans
        /\ spanMap_' = r.ps.spanMap
        /\ spans' = r.ps.spans
        /\ brk' = r.ps.brk
        /\ crashed' = r.ps.crashed
        /\ IF r.ps.crashed
           THEN /\ UNCHANGED <<pc, frame, threadVars, centralVars, mem, user,
                               last, carved, clobbered>>
           ELSE IF r.ret = NULL
           THEN /\ locks_' = clearOnFailure(locks_, index)
                /\ Returned(t, "allocate", frame[t].size, NULL, TRUE)
                /\ pc' = [pc EXCEPT ![t] = "idle"]
                /\ frame' = [frame EXCEPT ![t] = NoFrame]
                /\ UNCHANGED <<threadVars, centralFreeList_, mem, user, carved,
                               clobbered>>
           ELSE /\ centralFreeList_' =
                       IF c.setHead
                       THEN [centralFreeList_ EXCEPT ![index] = c.head]
                       ELSE centralFreeList_
                /\ locks_' = clear(locks_, index)
                /\ carved' = carved \cup
                       {[start |-> r.ret, size |-> size,
                         n |-> Max2(c.totalBlocks, 1)]}
                /\ clobbered' = clobbered \cup Clobber(DOMAIN c.stores, user)
                /\ FetchFinish(t, m1, r.ret)
    /\ UNCHANGED <<held, ops>>
    /\ UNCHANGED variantVars

\* fetchFromPageCache throws inside the try block of fetchRange: the page
\* tier has mapped the pages and `new Span` fails with std::bad_alloc.  The
\* catch block clears the lock and rethrows; the exception leaves allocate.
FetchThrow(t) ==
    /\ pc[t] = "fetch_page" /\ ~crashed
    /\ \E os \in OsAnswers :
        LET index == frame[t].index
            r == fetchFromPageCache(PageState, blockSize(index), os)
        IN
        /\ r.ret # NULL /\ r.ps.brk # brk
        /\ brk' = r.ps.brk
        /\ locks_' = clearInCatch(locks_, index)
        /\ Returned(t, "allocate throws", frame[t].size, NULL, FALSE)
    /\ pc' = [pc EXCEPT ![t] = "idle"]
    /\ frame' = [frame EXCEPT ![t] = NoFrame]
    /\ UNCHANGED <<threadVars, centralFreeList_, mem, freeSpans_, spanMap_,
                   spans, crashed, user, held, carved, clobbered, ops>>
    /\ UNCHANGED variantVars

(***************************************************************************)
(* ThreadCache::deallocate                                                 *)
(***************************************************************************)
\* a variant without the size test: the block is pushed on the list of the
\* largest class
DeallocateBypassPooled(t, b) ==
    LET index == FREE_LIST_SIZE - 1
        pushed == pushFront(mem, freeList_[t], index, b.addr)
    IN
    /\ pc[t] = "idle" /\ ops < MaxOps /\ ~crashed
    /\ BagIn(b, user)
    /\ b.size > MAX_BYTES
    /\ user' = Take(user, b)
    /\ mem' = pushed.mem
    /\ freeList_' = [freeList_ EXCEPT ![t] = pushed.fl]
    /\ freeListSize_' = [freeListSize_ EXCEPT ![t][index] = @ + 1]
    /\ Returned(t, "deallocate", b.size, NULL, FALSE)
    /\ ops' = ops + 1
    /\ UNCHANGED <<pc, frame, centralVars, pageVars, held, carved, clobbered>>
    /\ UNCHANGED variantVars

\* size > MAX_BYTES: free
DeallocateBypass(t, b) ==
    /\ pc[t] = "idle" /\ ops < MaxOps /\ ~crashed
    /\ BagIn(b, user)
    /\ b.size > MAX_BYTES
    /\ user' = Take(user, b)
    /\ Returned(t, "deallocate", b.size, NULL, FALSE)
    /\ ops' = ops + 1
    /\ UNCHANGED <<pc, frame, threadVars, centralVars, mem, pageVars, held, carved,
                   clobbered>>
    /\ UNCHANGED variantVars

\* push the block on the thread's list; above the threshold run
\* returnToCentralCache, up to the spin loop of returnRange
Deallocate(t, b) ==
    LET ptr == b.addr
        size == b.size
        index == getIndex(size)
        pushed == pushFront(mem, freeList_[t], index, ptr)
        m1 == pushed.mem
        fl1 == pushed.fl
        fls1 == [freeListSize_[t] EXCEPT ![index] = @ + 1]
        spill == shouldReturnToCentralCache(fls1, index)
        r == returnToCentralCache(m1, fl1, fls1, fl1[index], size)
        call == spill /\ r.call /\ ~(r.rstart = NULL \/ r.index >= FREE_LIST_SIZE)
    IN
    /\ pc[t] = "idle" /\ ops < MaxOps /\ ~crashed
    /\ BagIn(b, user)
    /\ size <= MAX_BYTES
    /\ user' = Take(user, b)
    /\ ops' = ops + 1
    /\ mem' = IF spill THEN r.mem ELSE m1
    /\ freeList_' = [freeList_ EXCEPT ![t] = IF spill THEN r.fl ELSE fl1]
    /\ freeListSize_' = [freeListSize_ EXCEPT ![t] = IF spill THEN r.fls ELSE fls1]
    /\ clobbered' = clobbered \cup
           Clobber({ptr} \cup (IF spill THEN r.stores ELSE {}), Take(user, b))
    /\ IF call
       THEN /\ pc' = [pc EXCEPT ![t] = "return_spin"]
            /\ frame' = [frame EXCEPT ![t] = [NoFrame EXCEPT !.size = size,
                                                !.index = r.index,
                                                !.start = r.rstart,
                                                !.rsize = r.rsize]]
            /\ UNCHANGED last
       ELSE /\ Returned(t, "deallocate", size, NULL, FALSE)
            /\ UNCHANGED <<pc, frame>>
    /\ UNCHANGED <<centralVars, pageVars, held, carved>>
    /\ UNCHANGED variantVars

\* test_and_set succeeded
ReturnAcquire(t) ==
    /\ pc[t] = "return_spin"
    /\ ~locks_[frame[t].index]
    /\ locks_' = [locks_ EXCEPT ![frame[t].index] = TRUE]
    /\ pc' = [pc EXCEPT ![t] = "return_cs"]
    /\ UNCHANGED <<frame, threadVars, centralFreeList_, mem, pageVars, user,
                   held, last, carved, clobbered, ops>>
    /\ UNCHANGED variantVars

\* critical section of returnRange: splice the chain in front of the list
ReturnSplice(t) ==
    LET f == frame[t]
        end == returnRangeEnd(mem, f.start, f.rsize)
        current == centralFreeList_[f.index]
    IN
    /\ pc[t] = "return_cs"
    /\ mem' = Write(mem, end, current)
    /\ clobbered' = clobbered \cup Clobber({end}, user)
    /\ centralFreeList_' = [centralFreeList_ EXCEPT ![f.index] = f.start]
    /\ locks_' = clear(locks_, f.index)
    /\ Returned(t, "deallocate", f.size, NULL, FALSE)
    /\ pc' = [pc EXCEPT ![t] = "idle"]
    /\ frame' = [frame EXCEPT ![t] = NoFrame]
    /\ UNCHANGED <<threadVars, pageVars, user, held, carved, ops>>
    /\ UNCHANGED variantVars

(***************************************************************************)
(* A caller of the page tier alone                                         *)
(***************************************************************************)
SetPage(ps) ==
    /\ freeSpans_' = ps.freeSpans
    /\ spanMap_' = ps.spanMap
    /\ spans' = ps.spans
    /\ brk' = ps.brk
    /\ crashed' = ps.crashed

PageAllocate(numPages, os) ==
    LET r == allocateSpan(PageState, numPages, os) IN
    /\ ~crashed /\ ops < MaxPageOps
    /\ SetPage(r.ps)
    /\ held' = IF r.ret # NULL
               THEN held \cup {[addr |-> r.ret, numPages |-> numPages]}
               ELSE held
    /\ ops' = ops + 1
    /\ UNCHANGED <<pc, frame, threadVars, centralVars, mem, user, last,
                   carved, clobbered>>
    /\ UNCHANGED variantVars

PageDeallocate(h) ==
    /\ ~crashed /\ ops < MaxPageOps
    /\ h \in held
    /\ SetPage(deallocateSpan(PageState, h.addr, h.numPages))
    /\ held' = held \ {h}
    /\ ops' = ops + 1
    /\ UNCHANGED <<pc, frame, threadVars, centralVars, mem, user, last,
                   carved, clobbered>>
    /\ UNCHANGED variantVars

\* deallocateSpan called with an address the page tier never handed out
PageDeallocateUnknown(ptr, numPages) ==
    /\ ~crashed /\ ops < MaxPageOps
    /\ ptr \notin DOMAIN spanMap_
    /\ SetPage(deallocateSpan(PageState, ptr, numPages))
    /\ last' = [NoCall EXCEPT !.op = "deallocateSpan", !.ret = ptr]
    /\ ops' = ops + 1
    /\ UNCHANGED <<pc, frame, threadVars, centralVars, mem, user, held,
                   carved, clobbered>>
    /\ UNCHANGED variantVars

(***************************************************************************)
(* MemoryPoolv1: the fixed-slot pool with a compare-and-swap free list     *)
(***************************************************************************)
SlotIdle(t) == slotPc[t] = "idle"

\* allocate() is entered: popFreeList loads the head; an empty list sends
\* the caller to the block under mutexForBlock_
PopLoad(t) ==
    /\ SlotIdle(t) /\ ops < MaxSlotOps
    /\ ops' = ops + 1
    /\ slotFrame' = [slotFrame EXCEPT ![t] =
                        [NoSlotFrame EXCEPT !.oldHead = poolFreeList_]]
    /\ slotPc' = [slotPc EXCEPT ![t] =
                     IF poolFreeList_ = NULL THEN "carve" ELSE "pop_next"]
    /\ UNCHANGED <<poolFreeList_, slotNext, curSlot_, slotUser>>

\* popFreeList: newHead = oldHead->next
PopNext(t) ==
    /\ slotPc[t] = "pop_next"
    /\ slotFrame' = [slotFrame EXCEPT ![t].newHead = slotNext[slotFrame[t].oldHead]]
    /\ slotPc' = [slotPc EXCEPT ![t] = "pop_cas"]
    /\ UNCHANGED <<poolFreeList_, slotNext, curSlot_, slotUser, ops>>

\* popFreeList: compare_exchange_weak(oldHead, newHead).  On success the
\* caller owns oldHead; on failure the loop loads the head again.
PopCas(t) ==
    LET f == slotFrame[t] IN
    /\ slotPc[t] = "pop_cas"
    /\ IF poolFreeList_ = f.oldHead
       THEN /\ poolFreeList_' = f.newHead
            /\ slotUser' = [slotUser EXCEPT ![f.oldHead] = @ + 1]
            /\ slotPc' = [slotPc EXCEPT ![t] = "idle"]
            /\ slotFrame' = [slotFrame EXCEPT ![t] = NoSlotFrame]
       ELSE /\ slotPc' = [slotPc EXCEPT ![t] =
                             IF poolFreeList_ = NULL THEN "carve" ELSE "pop_next"]
            /\ slotFrame' = [slotFrame EXCEPT ![t] =
                                [NoSlotFrame EXCEPT !.oldHead = poolFreeList_]]
            /\ UNCHANGED <<poolFreeList_, slotUser>>
    /\ UNCHANGED <<slotNext, curSlot_, ops>>

\* allocate, the block under mutexForBlock_: the slot at curSlot_ is handed
\* out and curSlot_ moves on by one slot
Carve(t) ==
    /\ slotPc[t] = "carve"
    /\ curSlot_ \in Slots
    /\ slotUser' = [slotUser EXCEPT ![curSlot_] = @ + 1]
    /\ curSlot_' = curSlot_ + 1
    /\ slotPc' = [slotPc EXCEPT ![t] = "idle"]
    /\ slotFrame' = [slotFrame EXCEPT ![t] = NoSlotFrame]
    /\ UNCHANGED <<poolFreeList_, slotNext, ops>>

\* deallocate(slot) by a caller that holds the slot: pushFreeList loads the
\* head and stores it into slot->next
PushLoad(t, slot) ==
    /\ SlotIdle(t) /\ ops < MaxSlotOps
    /\ slotUser[slot] > 0
    /\ ops' = ops + 1
    /\ slotUser' = [slotUser EXCEPT ![slot] = @ - 1]
    /\ slotNext' = [slotNext EXCEPT ![slot] = poolFreeList_]
    /\ slotFrame' = [slotFrame EXCEPT ![t] =
                        [NoSlotFrame EXCEPT !.oldHead = poolFreeList_,
                                            !.slot = slot]]
    /\ slotPc' = [slotPc EXCEPT ![t] = "push_cas"]
    /\ UNCHANGED <<poolFreeList_, curSlot_>>

\* pushFreeList: compare_exchange_weak(oldHead, slot); a failure repeats the
\* load and the store of slot->next
PushCas(t) ==
    LET f == slotFrame[t] IN
    /\ slotPc[t] = "push_cas"
    /\ IF poolFreeList_ = f.oldHead
       THEN /\ poolFreeList_' = f.slot
            /\ slotPc' = [slotPc EXCEPT ![t] = "idle"]
            /\ slotFrame' = [slotFrame EXCEPT ![t] = NoSlotFrame]
            /\ UNCHANGED slotNext
       ELSE /\ slotNext' = [slotNext EXCEPT ![f.slot] = poolFreeList_]
            /\ slotFrame' = [slotFrame EXCEPT ![t].oldHead = poolFreeList_]
            /\ UNCHANGED <<poolFreeList_, slotPc>>
    /\ UNCHANGED <<curSlot_, slotUser, ops>>

\* what the v1 pool leaves alone
PoolFrame ==
    UNCHANGED <<pc, frame, threadVars, centralVars, mem, pageVars, user, held,
                last, carved, clobbered, trackVars>>

PoolNext ==
    \/ \E t \in Threads : PopLoad(t) /\ PoolFrame
    \/ \E t \in Threads : PopNext(t) /\ PoolFrame
    \/ \E t \in Threads : PopCas(t) /\ PoolFrame
    \/ \E t \in Threads : Carve(t) /\ PoolFrame
    \/ \E t \in Threads, slot \in Slots : PushLoad(t, slot) /\ PoolFrame
    \/ \E t \in Threads : PushCas(t) /\ PoolFrame

PoolSpec == Init /\ [][PoolNext]_vars

(***************************************************************************)
(* MemoryPoolv2: the CentralCache that tracks spans and hands them back    *)
(***************************************************************************)
TrackIndexes == {getIndex(16384)}

\* the span of a tracker holds the address
InSpan(tr, addr) ==
    addr >= tr.spanAddr /\ addr < tr.spanAddr + tr.numPages * PAGE_SIZE

\* CentralCache::getSpanTracker: the first tracker whose span holds the
\* block, NULL when there is none
getSpanTracker(trk, blockAddr) ==
    LET hits == {i \in 1..Len(trk) : InSpan(trk[i], blockAddr)} IN
    IF hits = {} THEN NULL ELSE Min(hits)

\* the blocks linked from head; a list never has more blocks than were carved
BlockList(m, head) == WalkN(m, head, Cardinality(DOMAIN m) + 1)

\* updateSpanFreeCount, the while loop that unlinks the blocks of the span:
\* the memory after the stores through prev, and newHead
RECURSIVE excise(_, _, _, _, _)
excise(m, current, prev, newHead, tr) ==
    IF current = NULL THEN [mem |-> m, newHead |-> newHead]
    ELSE LET next == Read(m, current) IN
         IF InSpan(tr, current)
         THEN IF prev # NULL
              THEN excise(Write(m, prev, next), next, prev, newHead, tr)
              ELSE excise(m, next, prev, next, tr)
         ELSE excise(m, next, current, newHead, tr)

exciseLoop(m, head, tr) == excise(m, head, NULL, NULL, tr)

\* CentralCache::updateSpanFreeCount on the tier state
\* cs = [head, mem, trk, ps].  freeCount is a size_t that is only added to,
\* decremented and compared for equality with blockCount: within the bounds
\* of the model the integer counter decides that comparison as the 64-bit
\* counter does.
updateSpanFreeCount(cs, i, newFreeBlocks) ==
    LET newFreeCount == cs.trk[i].freeCount + newFreeBlocks
        trk1 == [cs.trk EXCEPT ![i].freeCount = newFreeCount]
        cut == exciseLoop(cs.mem, cs.head, cs.trk[i])
    IN IF newFreeCount = cs.trk[i].blockCount
       THEN [head |-> cut.newHead,
             mem |-> cut.mem,
             trk |-> trk1,
             ps |-> deallocateSpan(cs.ps, cs.trk[i].spanAddr, cs.trk[i].numPages)]
       ELSE [cs EXCEPT !.trk = trk1]

\* performDelayedReturn: spanFreeCounts, the number of listed blocks of
\* every tracker that owns a listed block
spanFreeCounts(cs) ==
    LET l == BlockList(cs.mem, cs.head)
        owners == {getSpanTracker(cs.trk, l[j]) : j \in 1..Len(l)} \ {NULL}
    IN [i \in owners |->
           Cardinality({j \in 1..Len(l) : getSpanTracker(cs.trk, l[j]) = i})]

\* the for loop over spanFreeCounts, visiting the trackers in the order seq
RECURSIVE updateAll(_, _, _)
updateAll(cs, counts, seq) ==
    IF seq = <<>> THEN cs
    ELSE updateAll(updateSpanFreeCount(cs, Head(seq), counts[Head(seq)]),
                   counts, Tail(seq))

\* the orders in which an unordered_map may be iterated
Orders(S) ==
    {seq \in [1..Cardinality(S) -> S] :
        \A a, b \in 1..Cardinality(S) : seq[a] = seq[b] => a = b}

\* CentralCache::shouldPerformDelayedReturn; elapsed tells whether
\* DELAY_INTERVAL has passed since the last return of the class
shouldPerformDelayedReturn(currentCount, elapsed) ==
    currentCount >= MAX_DELAY_COUNT \/ elapsed

TrackState(index) ==
    [head |-> centralFreeList_[index], mem |-> mem, trk |-> spanTrackers_,
     ps |-> PageState]

SetTrack(index, cs) ==
    /\ centralFreeList_' = [centralFreeList_ EXCEPT ![index] = cs.head]
    /\ mem' = cs.mem
    /\ spanTrackers_' = cs.trk
    /\ SetPage(cs.ps)

\* what the tracking tier leaves alone
TrackFrame ==
    UNCHANGED <<pc, frame, threadVars, locks_, user, last, carved, clobbered,
                poolVars>>

\* CentralCache::fetchRange(index) of MemoryPoolv2, the whole call under
\* locks_[index]: one block is returned
TrackFetchRange(index, os) ==
    LET result == centralFreeList_[index]
        size == blockSize(index)
        r == fetchFromPageCache(PageState, size, os)
        start == r.ret
        numPages == IF size <= SPAN_PAGES * PAGE_SIZE
                    THEN SPAN_PAGES
                    ELSE (size + PAGE_SIZE - 1) \div PAGE_SIZE
        blockNum == (numPages * PAGE_SIZE) \div size
        links == [a \in {start + (i - 1) * size : i \in 1..blockNum} |->
                     IF a = start \/ a = start + (blockNum - 1) * size
                     THEN NULL ELSE a + size]
        tracker == getSpanTracker(spanTrackers_, result)
    IN
    /\ ~crashed /\ ops < MaxTrackOps
    /\ ops' = ops + 1
    /\ IF result = NULL
       THEN IF start = NULL
            THEN /\ SetPage(r.ps)
                 /\ UNCHANGED <<centralFreeList_, mem, spanTrackers_, held>>
            ELSE /\ SetPage(r.ps)
                 /\ held' = held \cup {[start |-> start, index |-> index]}
                 /\ IF blockNum > 1
                    THEN /\ mem' = WriteAll(mem, links)
                         /\ centralFreeList_' =
                                [centralFreeList_ EXCEPT ![index] = start + size]
                         /\ spanTrackers_' = Append(spanTrackers_,
                                [spanAddr |-> start, numPages |-> numPages,
                                 blockCount |-> blockNum,
                                 freeCount |-> blockNum - 1])
                    ELSE UNCHANGED <<centralFreeList_, mem, spanTrackers_>>
       ELSE /\ mem' = Write(mem, result, NULL)
            /\ centralFreeList_' =
                   [centralFreeList_ EXCEPT ![index] = Read(mem, result)]
            /\ spanTrackers_' =
                   IF tracker # NULL
                   THEN [spanTrackers_ EXCEPT ![tracker].freeCount = @ - 1]
                   ELSE spanTrackers_
            /\ held' = held \cup {[start |-> result, index |-> index]}
            /\ UNCHANGED pageVars
    /\ UNCHANGED delayCounts_
    /\ TrackFrame

\* CentralCache::returnRange(start, blockSize, index) of MemoryPoolv2 with
\* one block a caller holds, the whole call under locks_[index]
TrackReturnRange(h, elapsed) ==
    LET index == h.index
        spliced == [TrackState(index) EXCEPT
                       !.mem = Write(mem, h.start, centralFreeList_[index]),
                       !.head = h.start]
        currentCount == delayCounts_[index] + 1
        counts == spanFreeCounts(spliced)
    IN
    /\ ~crashed /\ ops < MaxTrackOps
    /\ h \in held
    /\ ops' = ops + 1
    /\ held' = held \ {h}
    /\ IF shouldPerformDelayedReturn(currentCount, elapsed)
       THEN /\ delayCounts_' = [delayCounts_ EXCEPT ![index] = 0]
            /\ \E seq \in Orders(DOMAIN counts) :
                   SetTrack(index, updateAll(spliced, counts, seq))
       ELSE /\ delayCounts_' = [delayCounts_ EXCEPT ![index] = currentCount]
            /\ SetTrack(index, spliced)
    /\ TrackFrame

TrackNext ==
    \/ \E i \in TrackIndexes, os \in OsAnswers : TrackFetchRange(i, os)
    \/ \E h \in held, elapsed \in BOOLEAN : TrackReturnRange(h, elapsed)

TrackSpec == Init /\ [][TrackNext]_vars

(***************************************************************************)
(* Specifications                                                          *)
(***************************************************************************)
Next ==
    \/ \E t \in Threads, s \in Sizes : AllocateHit(t, s)
    \/ \E t \in Threads, s \in Sizes : AllocateMiss(t, s)
    \/ \E t \in Threads : FetchAcquire(t)
    \/ \E t \in Threads : FetchFromList(t)
    \/ \E t \in Threads : FetchEmpty(t)
    \/ \E t \in Threads : FetchPage(t)
    \/ \E t \in Threads, b \in BagToSet(user) : Deallocate(t, b)
    \/ \E t \in Threads : ReturnAcquire(t)
    \/ \E t \in Threads : ReturnSplice(t)

Spec == Init /\ [][Next]_vars

\* The same program called with the sizes of testEdgeCases
EdgeNext ==
    \/ \E t \in Threads, s \in EdgeSizes : AllocateHit(t, s)
    \/ \E t \in Threads, s \in EdgeSizes : AllocateMiss(t, s)
    \/ \E t \in Threads : FetchAcquire(t)
    \/ \E t \in Threads : FetchFromList(t)
    \/ \E t \in Threads : FetchEmpty(t)
    \/ \E t \in Threads : FetchPage(t)
    \/ \E t \in Threads, b \in BagToSet(user) : Deallocate(t, b)
    \/ \E t \in Threads : ReturnAcquire(t)
    \/ \E t \in Threads : ReturnSplice(t)

EdgeSpec == Init /\ [][EdgeNext]_vars

PageNext ==
    \/ \E n \in 1..MaxSpanPages, os \in OsAnswers : PageAllocate(n, os)
    \/ \E h \in held : PageDeallocate(h)

PageSpec == Init /\ [][PageNext]_vars

\* The page-tier caller, also passing addresses that are no span's start
PageAddrs == {p * PAGE_SIZE : p \in 0..brk}

UnknownNext ==
    \/ \E n \in 1..MaxSpanPages, os \in OsAnswers : PageAllocate(n, os)
    \/ \E h \in held : PageDeallocate(h)
    \/ \E ptr \in PageAddrs, n \in 1..MaxSpanPages : PageDeallocateUnknown(ptr, n)

UnknownSpec == Init /\ [][UnknownNext]_vars

\* The program called with pool sizes and with sizes above MAX_BYTES
BypassNext ==
    \/ Next
    \/ \E t \in Threads, s \in BypassSizes : AllocateBypass(t, s)
    \/ \E t \in Threads, b \in BagToSet(user) : DeallocateBypass(t, b)

BypassSpec == Init /\ [][BypassNext]_vars

\* SizeClass and the index selection of the thread tier applied to one
\* argument: the pool is untouched, last records the call
SizeInit ==
    /\ pc = [t \in Threads |-> "idle"]
    /\ frame = [t \in Threads |-> NoFrame]
    /\ freeList_ = [t \in Threads |-> [i \in Classes |-> NULL]]
    /\ freeListSize_ = [t \in Threads |-> [i \in Classes |-> 0]]
    /\ centralFreeList_ = [i \in Classes |-> NULL]
    /\ locks_ = [i \in Classes |-> FALSE]
    /\ mem = <<>>
    /\ freeSpans_ = <<>>
    /\ spanMap_ = <<>>
    /\ spans = <<>>
    /\ brk = 1
    /\ crashed = FALSE
    /\ user = EmptyBag
    /\ held = {}
    /\ last \in {[NoCall EXCEPT !.size = n] : n \in SizeArgs}
    /\ carved = {}
    /\ clobbered = {}
    /\ ops = 0
    /\ TrackInit
    /\ PoolInit

SizeCall(op, ret) ==
    /\ last.op = "none"
    /\ last' = [last EXCEPT !.op = op, !.ret = ret]
    /\ UNCHANGED <<pc, frame, threadVars, centralVars, mem, pageVars, user,
                   held, carved, clobbered, ops>>
    /\ UNCHANGED variantVars

RoundUpCall == SizeCall("roundUp", roundUp(last.size))
AllocateIndexCall == SizeCall("allocate index", allocateIndex(last.size))
DeallocateIndexCall == SizeCall("deallocate index", deallocateIndex(last.size))

\* totalBlocks of fetchRange when it carves a span for the class of the size
TotalBlocksCall ==
    LET index == getIndex(last.size) IN
    SizeCall("totalBlocks",
             fetchRangeCarve(PAGE_SIZE, index,
                             getBatchNum(blockSize(index))).totalBlocks)

SizeNext ==
    \/ RoundUpCall
    \/ AllocateIndexCall
    \/ DeallocateIndexCall
    \/ TotalBlocksCall

SizeSpec == SizeInit /\ [][SizeNext]_vars

\* getBatchNum applied to the block size of every size class
BlockSizes == {ALIGNMENT * i : i \in 1..FREE_LIST_SIZE}

BatchInit ==
    /\ pc = [t \in Threads |-> "idle"]
    /\ frame = [t \in Threads |-> NoFrame]
    /\ freeList_ = [t \in Threads |-> [i \in Classes |-> NULL]]
    /\ freeListSize_ = [t \in Threads |-> [i \in Classes |-> 0]]
    /\ centralFreeList_ = [i \in Classes |-> NULL]
    /\ locks_ = [i \in Classes |-> FALSE]
    /\ mem = <<>>
    /\ freeSpans_ = <<>>
    /\ spanMap_ = <<>>
    /\ spans = <<>>
    /\ brk = 1
    /\ crashed = FALSE
    /\ user = EmptyBag
    /\ held = {}
    /\ last \in {[NoCall EXCEPT !.size = n] : n \in BlockSizes}
    /\ carved = {}
    /\ clobbered = {}
    /\ ops = 0
    /\ TrackInit
    /\ PoolInit

GetBatchNumCall == SizeCall("getBatchNum", getBatchNum(last.size))

BatchSpec == BatchInit /\ [][GetBatchNumCall]_vars

\* testStress on thread 1: StressAllocs calls of allocate, every one
\* asserted to be non-null, then one deallocate for every block (the
\* shuffle is taken to give the blocks in address order).  ops starts so
\* that the guards of the calls admit the 2 * StressAllocs calls.
StressInit ==
    /\ pc = [t \in Threads |-> "idle"]
    /\ frame = [t \in Threads |-> NoFrame]
    /\ freeList_ = [t \in Threads |-> [i \in Classes |-> NULL]]
    /\ freeListSize_ = [t \in Threads |-> [i \in Classes |-> 0]]
    /\ centralFreeList_ = [i \in Classes |-> NULL]
    /\ locks_ = [i \in Classes |-> FALSE]
    /\ mem = <<>>
    /\ freeSpans_ = <<>>
    /\ spanMap_ = <<>>
    /\ spans = <<>>
    /\ brk = 1
    /\ crashed = FALSE
    /\ user = EmptyBag
    /\ held = {}
    /\ last = NoCall
    /\ carved = {}
    /\ clobbered = {}
    /\ ops = MaxOps - 2 * StressAllocs
    /\ TrackInit
    /\ PoolInit

\* the first loop of testStress is running
StressAllocating ==
    /\ last.op # "deallocate"
    /\ BagCardinality(user) < StressAllocs

\* the second loop of testStress is running
StressFreeing ==
    \/ last.op = "deallocate"
    \/ BagCardinality(user) = StressAllocs

StressNext ==
    \/ StressAllocating /\ \E s \in StressSizes : AllocateMiss(1, s)
    \/ FetchAcquire(1)
    \/ FetchFromList(1)
    \/ FetchEmpty(1)
    \/ FetchPage(1) /\ last'.ret # NULL
    \/ /\ StressFreeing
       /\ \E b \in BagToSet(user) :
              /\ \A c \in BagToSet(user) : b.addr <= c.addr
              /\ Deallocate(1, b)
    \/ ReturnAcquire(1)
    \/ ReturnSplice(1)

StressSpec == StressInit /\ [][StressNext]_vars

(***************************************************************************)
(* A caller of the central tier alone                                      *)
(***************************************************************************)
\* the size classes the caller uses, and one index past centralFreeList_
RangeIndexes == {getIndex(16384), getIndex(MAX_BYTES), FREE_LIST_SIZE}

\* a variant that does not reject batchNum = 0
CallFetchRangeAnyBatch(t, index, batchNum) ==
    /\ pc[t] = "idle" /\ ops < MaxOps /\ ~crashed
    /\ ops' = ops + 1
    /\ IF index >= FREE_LIST_SIZE
       THEN /\ Returned(t, "fetchRange", batchNum, NULL, FALSE)
            /\ UNCHANGED <<pc, frame>>
       ELSE /\ pc' = [pc EXCEPT ![t] = "fetch_spin"]
            /\ frame' = [frame EXCEPT ![t] = [NoFrame EXCEPT
                                                !.index = index,
                                                !.batchNum = batchNum]]
            /\ UNCHANGED last
    /\ UNCHANGED <<threadVars, centralVars, mem, pageVars, user, held, carved,
                   clobbered>>
    /\ UNCHANGED variantVars

\* CentralCache::fetchRange(index, batchNum) up to the spin loop
CallFetchRange(t, index, batchNum) ==
    /\ pc[t] = "idle" /\ ops < MaxOps /\ ~crashed
    /\ ops' = ops + 1
    /\ IF index >= FREE_LIST_SIZE \/ batchNum = 0
       THEN /\ Returned(t, "fetchRange", batchNum, NULL, FALSE)
            /\ UNCHANGED <<pc, frame>>
       ELSE /\ pc' = [pc EXCEPT ![t] = "fetch_spin"]
            /\ frame' = [frame EXCEPT ![t] = [NoFrame EXCEPT
                                                !.index = index,
                                                !.batchNum = batchNum]]
            /\ UNCHANGED last
    /\ UNCHANGED <<threadVars, centralVars, mem, pageVars, user, held, carved,
                   clobbered>>
    /\ UNCHANGED variantVars

\* fetchRange returns the chain result to the caller
RangeFinish(t, result) ==
    /\ held' = held \cup {[start |-> result, index |-> frame[t].index]}
    /\ Returned(t, "fetchRange", frame[t].batchNum, result, FALSE)
    /\ pc' = [pc EXCEPT ![t] = "idle"]
    /\ frame' = [frame EXCEPT ![t] = NoFrame]

\* critical section of fetchRange, list not empty
RangeFromList(t) ==
    LET index == frame[t].index
        result == centralFreeList_[index]
        d == fetchRangeDetach(mem, result, frame[t].batchNum)
    IN
    /\ pc[t] = "fetch_cs"
    /\ result # NULL
    /\ mem' = WriteAll(mem, d.stores)
    /\ centralFreeList_' = [centralFreeList_ EXCEPT ![index] = d.head]
    /\ locks_' = clear(locks_, index)
    /\ RangeFinish(t, result)
    /\ UNCHANGED <<threadVars, pageVars, user, carved, clobbered, ops>>
    /\ UNCHANGED variantVars

\* allocateSpan returned; carve the span or give up
RangeFromPage(t) ==
    /\ pc[t] = "fetch_page" /\ ~crashed
    /\ \E os \in OsAnswers :
        LET index == frame[t].index
            size == blockSize(index)
            r == fetchFromPageCache(PageState, size, os)
            c == fetchRangeCarve(r.ret, index, frame[t].batchNum)
        IN
        /\ SetPage(r.ps)
        /\ IF r.ps.crashed
           THEN /\ UNCHANGED <<pc, frame, centralVars, mem, held, last, carved>>
           ELSE IF r.ret = NULL
           THEN /\ locks_' = clearOnFailure(locks_, index)
                /\ Returned(t, "fetchRange", frame[t].batchNum, NULL, TRUE)
                /\ pc' = [pc EXCEPT ![t] = "idle"]
                /\ frame' = [frame EXCEPT ![t] = NoFrame]
                /\ UNCHANGED <<centralFreeList_, mem, held, carved>>
           ELSE /\ centralFreeList_' =
                       IF c.setHead
                       THEN [centralFreeList_ EXCEPT ![index] = c.head]
                       ELSE centralFreeList_
                /\ locks_' = clear(locks_, index)
                /\ mem' = WriteAll(mem, c.stores)
                /\ carved' = carved \cup
                       {[start |-> r.ret, size |-> size,
                         n |-> Max2(c.totalBlocks, 1)]}
                /\ RangeFinish(t, r.ret)
    /\ UNCHANGED <<threadVars, user, clobbered, ops>>
    /\ UNCHANGED variantVars

\* CentralCache::returnRange(start, size, index) up to the spin loop; the
\* caller gives up the chain h, or passes a null start
CallReturnRange(t, h, start, index) ==
    /\ pc[t] = "idle" /\ ops < MaxOps /\ ~crashed
    /\ h \in held
    /\ start \in {h.start, NULL}
    /\ index \in {h.index, FREE_LIST_SIZE}
    /\ ops' = ops + 1
    /\ IF start = NULL \/ index >= FREE_LIST_SIZE
       THEN /\ Returned(t, "returnRange", 0, NULL, FALSE)
            /\ UNCHANGED <<pc, frame, held>>
       ELSE /\ pc' = [pc EXCEPT ![t] = "return_spin"]
            /\ frame' = [frame EXCEPT ![t] = [NoFrame EXCEPT
                             !.index = index,
                             !.start = start,
                             !.rsize = Len(WalkN(mem, start, MaxBatch + 1))
                                           * blockSize(index)]]
            /\ held' = held \ {h}
            /\ UNCHANGED last
    /\ UNCHANGED <<threadVars, centralVars, mem, pageVars, user, carved,
                   clobbered>>
    /\ UNCHANGED variantVars

CentralNext ==
    \/ \E t \in Threads, i \in RangeIndexes, n \in 0..MaxBatch :
           CallFetchRange(t, i, n)
    \/ \E t \in Threads : FetchAcquire(t)
    \/ \E t \in Threads : FetchEmpty(t)
    \/ \E t \in Threads : RangeFromList(t)
    \/ \E t \in Threads : RangeFromPage(t)
    \/ \E t \in Threads, h \in held :
           \E start \in {h.start, NULL}, i \in {h.index, FREE_LIST_SIZE} :
               CallReturnRange(t, h, start, i)
    \/ \E t \in Threads : ReturnAcquire(t)
    \/ \E t \in Threads : ReturnSplice(t)

CentralSpec == Init /\ [][CentralNext]_vars

PcValues == {"idle", "fetch_spin", "fetch_cs", "fetch_page", "return_spin",
             "return_cs"}

\* Thread t is inside a call and its next step can be taken: FetchAcquire
\* and ReturnAcquire need the lock clear, FetchFromList / FetchEmpty,
\* FetchPage and ReturnSplice need nothing more than the position.
CanStep(t) ==
    \/ pc[t] \in {"fetch_spin", "return_spin"} /\ ~locks_[frame[t].index]
    \/ pc[t] \in {"fetch_cs", "return_cs"}
    \/ pc[t] = "fetch_page" /\ ~crashed

\* Thread t takes a step inside a call: among the steps of Next these are
\* FetchAcquire(t), FetchFromList(t), FetchEmpty(t), FetchPage(t),
\* ReturnAcquire(t) and ReturnSplice(t), the only ones that move t on from
\* a position other than idle.
Step(t) ==
    /\ CanStep(t)
    /\ pc' \in [Threads -> PcValues]
    /\ pc'[t] # pc[t]

\* Spec under fair scheduling: a thread that can take a step inside a call
\* is not suspended forever (the spin loops retry, mmap returns)
FairSpec == Spec /\ \A t \in Threads : WF_pc(Step(t))

\* The program of Spec where an allocation inside the page tier may throw
ThrowNext ==
    \/ Next
    \/ \E t \in Threads : FetchThrow(t)

ThrowSpec == Init /\ [][ThrowNext]_vars

(***************************************************************************)
(* Observing the lists                                                     *)
(***************************************************************************)
WalkDepth == 13     \* a whole list is read over at most 2^WalkDepth links

\* The first 2^k nodes of the list starting at h: the set of nodes, the
\* number of nodes, and the link stored in the last of them (NULL when the
\* list ended)
RECURSIVE Seg(_, _, _)
Seg(m, h, k) ==
    IF h = NULL THEN [nodes |-> {}, len |-> 0, next |-> NULL]
    ELSE IF k = 0 THEN [nodes |-> {h}, len |-> 1, next |-> Read(m, h)]
    ELSE LET a == Seg(m, h, k - 1)
             b == Seg(m, a.next, k - 1)
         IN [nodes |-> a.nodes \cup b.nodes, len |-> a.len + b.len,
             next |-> b.next]

ListOf(m, h) == Seg(m, h, WalkDepth)

EndsInNull(l) == l.next = NULL
NoRepeat(l) == Cardinality(l.nodes) = l.len

ThreadList(t, i) == ListOf(mem, freeList_[t][i])
CentralList(i) == ListOf(mem, centralFreeList_[i])
\* the chain a thread is handing to returnRange
InTransit(t) ==
    IF pc[t] \in {"return_spin", "return_cs"}
    THEN ListOf(mem, frame[t].start)
    ELSE ListOf(mem, NULL)

\* every block that is linked in a thread list or in a central list
FreeListBlocks ==
    UNION ({ThreadList(t, i).nodes : t \in Threads, i \in Classes}
           \cup {CentralList(i).nodes : i \in Classes})
TransitBlocks == UNION {InTransit(t).nodes : t \in Threads}

PoolLive == {b \in BagToSet(user) : b.tier = "pool"}
Idle == \A t \in Threads : pc[t] = "idle"

(***************************************************************************)
(* C1: a block allocate has returned and that was not yet given to         *)
(* deallocate is in no thread-tier free list and in no central free list   *)
(* (nor in a chain on its way to the central list).                        *)
(***************************************************************************)
C1_LiveNotInFreeList ==
    {b.addr : b \in PoolLive} \cap (FreeListBlocks \cup TransitBlocks) = {}

\* the users hold two blocks of size 32 while a thread list and the central
\* list of the class are not empty
C1_Witness ==
    /\ Cardinality({b \in PoolLive : b.size = 32}) >= 2
    /\ \E t \in Threads : freeList_[t][getIndex(32)] # NULL
    /\ centralFreeList_[getIndex(32)] # NULL
    /\ last.op = "deallocate"

(***************************************************************************)
(* C2: two live allocations never overlap: no address is handed out twice  *)
(* while it is live, and the ranges [a, a + s) of two live allocations     *)
(* are disjoint, whatever the threads and the size classes.                *)
(***************************************************************************)
C2_LiveDisjoint ==
    /\ \A b \in BagToSet(user) : CopiesIn(b, user) = 1
    /\ \A b1, b2 \in BagToSet(user) :
           b1 # b2 => \/ b1.addr + Extent(b1.size) <= b2.addr
                      \/ b2.addr + Extent(b2.size) <= b1.addr

\* three blocks are live, of both classes, and the last one came from the
\* central list
C2_Witness ==
    /\ Cardinality(BagToSet(user)) >= 3
    /\ {b.size : b \in BagToSet(user)} = Sizes
    /\ last.op = "allocate" /\ last.size = 16384 /\ last.ret # NULL
    /\ \E c \in carved : c.size = 16384 /\ last.ret = c.start + c.size

(***************************************************************************)
(* C3: allocate(size) with 0 <= size <= MAX_BYTES returns a non-null       *)
(* address unless the OS refused a mapping, for size 0, 1 and MAX_BYTES,   *)
(* on a cold and on a warm cache.                                          *)
(***************************************************************************)
C3_AllocateNonNull ==
    (last.op = "allocate" /\ last.size \in 0..MAX_BYTES /\ ~last.denied)
        => last.ret # NULL

\* allocate(MAX_BYTES) has just returned a block while blocks of size 0
\* and of size 1 (the second one a hit in the thread list) are live
C3_Witness ==
    /\ last.op = "allocate" /\ last.size = MAX_BYTES /\ last.ret # NULL
    /\ \E b \in PoolLive : b.size = 0
    /\ \E b \in PoolLive : b.size = 1

(***************************************************************************)
(* C4: every address allocate returns is a multiple of ALIGNMENT (8).      *)
(***************************************************************************)
C4_ReturnAligned ==
    /\ (last.op = "allocate" /\ last.ret # NULL) => last.ret % ALIGNMENT = 0
    /\ \A b \in BagToSet(user) : b.addr % ALIGNMENT = 0

\* allocate(1) has just returned a block from the inside of a span
C4_Witness ==
    /\ last.op = "allocate" /\ last.size = 1
    /\ \E c \in carved : c.start < last.ret /\ last.ret < c.start + c.n * c.size

(***************************************************************************)
(* C5: the allocator stores nothing into a block between the return of     *)
(* allocate and the call of deallocate: what the user wrote is still there.*)
(***************************************************************************)
C5_LiveUntouched ==
    /\ clobbered = {}
    /\ \A b \in PoolLive : Read(mem, b.addr) = UserData

\* a block of each size is live after a deallocate spilled to the central
\* list and a later allocate was served from there
C5_Witness ==
    /\ \E b \in PoolLive : b.size = 32
    /\ \E b \in PoolLive : b.size = 16384
    /\ \E t \in Threads : freeListSize_[t][getIndex(32)] = Max2((threshold + 1) \div 4, 1)
    /\ last.op = "allocate"

\* the blocks cut from the spans of class i
CarvedBlocks(i) ==
    UNION {{c.start + k * c.size : k \in 0..(c.n - 1)} :
              c \in {c \in carved : c.size = blockSize(i)}}

\* the live blocks of class i
LiveOf(i) == {b \in PoolLive : getIndex(b.size) = i}

\* the lists that hold blocks of class i: one per thread, the central list,
\* and the chains on their way to it
ListIds == ({"thread", "transit"} \X Threads) \cup {<<"central", 0>>}
ListsOfClass(i) ==
    [id \in ListIds |->
        IF id[1] = "thread" THEN ThreadList(id[2], i)
        ELSE IF id[1] = "central" THEN CentralList(i)
        ELSE IF frame[id[2]].index = i THEN InTransit(id[2])
        ELSE ListOf(mem, NULL)]

\* the number of nodes of the lists L[id], id in ids, added up
RECURSIVE SumLen(_, _)
SumLen(L, ids) ==
    IF ids = {} THEN 0
    ELSE LET id == CHOOSE x \in ids : TRUE
         IN L[id].len + SumLen(L, ids \ {id})

\* the blocks linked in one of the lists L[id]
AllNodes(L) == UNION {L[id].nodes : id \in ListIds}

(***************************************************************************)
(* C6: block conservation.  For every size class the blocks carved from    *)
(* spans are at all times partitioned among the live allocations, the      *)
(* thread lists and the central list (or a chain in transit): none is      *)
(* lost, none is there twice, for every size accepted, size 0 included.    *)
(* (The blocks of the lists and the live blocks are together the carved    *)
(* blocks, and there are as many of them, counted list by list.)           *)
(***************************************************************************)
C6_BlockConservation ==
    \A i \in Classes : \A L \in {ListsOfClass(i)} :
        LET live == LiveOf(i)
            liveAddrs == {b.addr : b \in live}
        IN /\ \A b \in live : CopiesIn(b, user) = 1
           /\ Cardinality(liveAddrs) = Cardinality(live)
           /\ AllNodes(L) \cup liveAddrs = CarvedBlocks(i)
           /\ SumLen(L, ListIds) + Cardinality(live)
                  = Cardinality(CarvedBlocks(i))

(***************************************************************************)
(* C7: every free block (carved, not live) is linked in exactly one free   *)
(* list, and that list belongs to the size class the block was carved for. *)
(***************************************************************************)
C7_FreeBlockInOneList ==
    \A M \in {[i \in Classes |-> ListsOfClass(i)]} : \A i \in Classes :
        \A free \in {CarvedBlocks(i) \ {b.addr : b \in LiveOf(i)}} :
        /\ free \subseteq AllNodes(M[i])
        /\ SumLen(M[i], ListIds) = Cardinality(AllNodes(M[i]))
        /\ \A j \in Classes \ {i} : \A a \in AllNodes(M[j]) : a \notin free

(***************************************************************************)
(* C8: every thread list, every central list and every chain handed to     *)
(* the central tier is acyclic and ends in null.                           *)
(***************************************************************************)
C8_ListsAcyclic ==
    /\ \A t \in Threads, i \in Classes : \A l \in {ThreadList(t, i)} :
           EndsInNull(l) /\ NoRepeat(l)
    /\ \A i \in Classes : \A l \in {CentralList(i)} :
           EndsInNull(l) /\ NoRepeat(l)
    /\ \A t \in Threads : \A l \in {InTransit(t)} :
           EndsInNull(l) /\ NoRepeat(l)

\* after a spill: a thread list of 16 blocks and a chain of 48 blocks that
\* was spliced in front of a non-empty central list
C8_Witness ==
    /\ last.op = "deallocate" /\ Idle
    /\ \E t \in Threads : ThreadList(t, getIndex(32)).len = (threshold + 1) \div 4
    /\ CentralList(getIndex(32)).len > threshold

\* the Span descriptors linked behind head
RECURSIVE SpanChain(_, _)
SpanChain(sp, head) ==
    IF head = NULL THEN {} ELSE {head} \cup SpanChain(sp, sp[head].next)

SpanEnd(s) == spans[s].pageAddr + spans[s].numPages * PAGE_SIZE

(***************************************************************************)
(* C9: after any sequence of allocateSpan / deallocateSpan (the latter     *)
(* with an address and page count allocateSpan returned) the page ranges   *)
(* [pageAddr, pageAddr + numPages * PAGE_SIZE) of the Span descriptors     *)
(* are pairwise disjoint.                                                  *)
(***************************************************************************)
C9_SpansDisjoint ==
    \A s1, s2 \in DOMAIN spans :
        s1 # s2 => \/ SpanEnd(s1) <= spans[s2].pageAddr
                   \/ SpanEnd(s2) <= spans[s1].pageAddr

\* a span was split (its remainder is there), two spans were merged, and a
\* span is in use
C9_Witness ==
    /\ \E s \in DOMAIN spans : spans[s].numPages > MaxSpanPages
    /\ \E s1, s2 \in DOMAIN spans : s1 # s2 /\ SpanEnd(s1) = spans[s2].pageAddr
    /\ held # {}
    /\ Cardinality(DOMAIN spans) >= 3

(***************************************************************************)
(* C10: every Span linked in a freeSpans_ list has its entry in spanMap_,  *)
(* the remainder of a split included.                                      *)
(***************************************************************************)
C10_FreeSpansInSpanMap ==
    \A k \in DOMAIN freeSpans_ :
        \A s \in SpanChain(spans, freeSpans_[k]) :
            /\ spans[s].pageAddr \in DOMAIN spanMap_
            /\ spanMap_[spans[s].pageAddr] = s

\* the pages of the span that fetchRange carved at address start
PagesOfSpan(start) == spans[spanMap_[start]].numPages

(***************************************************************************)
(* C11: every block the central tier carves from a span of p pages lies    *)
(* inside [start, start + p * PAGE_SIZE) of that span.  The blocks of a    *)
(* carve follow one another from start, so the first one and the last one  *)
(* bound them all.                                                         *)
(***************************************************************************)
C11_BlocksInsideSpan ==
    \A c \in carved :
        /\ c.start \in DOMAIN spanMap_
        /\ \A k \in {0, c.n - 1} :
               /\ c.start <= c.start + k * c.size
               /\ c.start + (k + 1) * c.size
                      <= c.start + PagesOfSpan(c.start) * PAGE_SIZE

\* a span of SPAN_PAGES pages was carved for class 0 and a larger span for
\* the class of MAX_BYTES
C11_Witness ==
    /\ \E c \in carved : c.size = ALIGNMENT /\ PagesOfSpan(c.start) = SPAN_PAGES
    /\ \E c \in carved : c.size = MAX_BYTES /\ PagesOfSpan(c.start) > SPAN_PAGES

\* thread t is between the test_and_set that succeeded and the clear of
\* locks_[i]
Holds(t, i) ==
    /\ pc[t] \in {"fetch_cs", "fetch_page", "return_cs"}
    /\ frame[t].index = i

(***************************************************************************)
(* C12: a thread that is executing a page-tier operation (allocateSpan)    *)
(* holds no central-tier spin lock.                                        *)
(***************************************************************************)
C12_NoLockInPageTier ==
    \A t \in Threads :
        pc[t] = "fetch_page" => \A i \in Classes : ~(Holds(t, i) /\ locks_[i])

\* the addresses whose first word differs before and after a step
Stored == {a \in DOMAIN mem' : Read(mem, a) # mem'[a]}

\* a step touched the central list of class i: its head, or the link word
\* of a block that is in the list when the step is taken
TouchesCentral(i) ==
    \/ centralFreeList_'[i] # centralFreeList_[i]
    \/ \E S \in {Stored} :
          /\ S # {}
          /\ \E a \in S : a \in CentralList(i).nodes

\* at most one thread is between test_and_set and clear of locks_[i], and
\* the lock is set then
OneInCriticalSection ==
    \A i \in Classes :
        /\ Cardinality({t \in Threads : Holds(t, i)}) <= 1
        /\ (\E t \in Threads : Holds(t, i)) => locks_[i]

(***************************************************************************)
(* C13: at most one thread at a time is inside the critical section of     *)
(* fetchRange or returnRange for a size class i, and every step that       *)
(* reads or writes centralFreeList_[i] or the link word of a block of that *)
(* list is taken by a thread that holds locks_[i].                         *)
(***************************************************************************)
C13_CentralUnderLock ==
    /\ []OneInCriticalSection
    /\ [][\A i \in Classes :
              TouchesCentral(i) => \E t \in Threads : Holds(t, i) /\ locks_[i]]_vars

\* one thread is inside the critical section of a class while the other
\* thread spins on the lock of the same class
C13_Witness ==
    \E t1, t2 \in Threads :
        /\ pc[t1] = "return_cs" /\ pc[t2] = "fetch_spin"
        /\ frame[t1].index = frame[t2].index
        /\ centralFreeList_[frame[t1].index] # NULL

(***************************************************************************)
(* C14: every exit of fetchRange and returnRange (normal return, refused   *)
(* span, exception inside the critical section) leaves locks_[index]       *)
(* clear: a lock is set only while some thread is between its test_and_set *)
(* and its clear, so a thread whose operation has ended holds none.        *)
(***************************************************************************)
C14_LockClearAfterExit ==
    \A i \in Classes : locks_[i] => \E t \in Threads : Holds(t, i)

\* an exception has just left fetchRange, every lock is clear again, and a
\* user holds a block that was handed out before
C14_Witness ==
    /\ last.op = "allocate throws"
    /\ \A i \in Classes : ~locks_[i]
    /\ user # EmptyBag

ColdStep(t) ==
    /\ pc'[t] # pc[t]
    /\ \/ pc'[t] \in {"fetch_spin", "fetch_cs", "fetch_page"}
       \/ /\ pc[t] = "fetch_page" /\ pc'[t] = "idle"
          /\ last'.t = t /\ last'.denied

\* the size class of the call thread t is in, or is entering
ColdIndex(t) == IF pc[t] = "idle" THEN frame'[t].index ELSE frame[t].index

\* C16: when the OS denies the mapping during a cache-cold allocate(size)
\* with size <= MAX_BYTES, allocate returns null, and no step of the call
\* changes the calling thread's free lists and length counters, the central
\* list of the class (head and link words) or the page-tier indices
\* freeSpans_ and spanMap_ (with the Span descriptors they point to).
C16_DenialLeavesState ==
    /\ [](last.denied => last.op = "allocate" /\ last.ret = NULL)
    /\ [][\A t \in Threads :
             ColdStep(t) =>
                 /\ freeList_'[t] = freeList_[t]
                 /\ freeListSize_'[t] = freeListSize_[t]
                 /\ centralFreeList_'[ColdIndex(t)]
                        = centralFreeList_[ColdIndex(t)]
                 /\ mem' = mem
                 /\ freeSpans_' = freeSpans_
                 /\ spanMap_' = spanMap_
                 /\ spans' = spans]_vars

\* witness: a denied allocate(size <= MAX_BYTES) has returned null while the
\* pool already holds spans and a thread holds cached blocks
C16_Witness ==
    /\ last.op = "allocate" /\ last.denied /\ last.ret = NULL
    /\ last.size <= MAX_BYTES
    /\ DOMAIN spanMap_ # {}
    /\ \E t \in Threads, i \in Classes : freeList_[t][i] # NULL

(***************************************************************************)
(* C17                                                                     *)
(***************************************************************************)
\* A whole call with size > MAX_BYTES happens in this step: a block of the
\* host allocator enters or leaves the user's hands, or malloc fails.
BypassStep ==
    /\ ops' # ops /\ pc' = pc
    /\ \/ \E b \in BagToSet(user) \cup BagToSet(user') :
              b.tier = "host" /\ CopiesIn(b, user) # CopiesIn(b, user')
       \/ user' = user /\ last'.denied /\ last'.size > MAX_BYTES

\* C17: allocate(size) and deallocate(ptr, size) with size > MAX_BYTES are
\* served by the host allocator (the block lies outside the mapped arena)
\* and leave every thread list and counter, every central list and lock,
\* the link words and the page-tier indices unchanged.
C17_BypassLeavesPool ==
    /\ [](\A b \in BagToSet(user) :
              /\ (b.size > MAX_BYTES) <=> (b.tier = "host")
              /\ (b.tier = "host") => b.addr >= HostBase)
    /\ [][BypassStep =>
             /\ freeList_' = freeList_
             /\ freeListSize_' = freeListSize_
             /\ centralFreeList_' = centralFreeList_
             /\ locks_' = locks_
             /\ mem' = mem
             /\ freeSpans_' = freeSpans_
             /\ spanMap_' = spanMap_
             /\ spans' = spans]_vars

\* witness: a block above MAX_BYTES was allocated and freed again while the
\* pool holds cached blocks and a mapped span
C17_Witness ==
    /\ last.op = "deallocate" /\ last.size > MAX_BYTES
    /\ DOMAIN spanMap_ # {}
    /\ \E t \in Threads, i \in Classes : freeList_[t][i] # NULL

(***************************************************************************)
(* C18                                                                     *)
(***************************************************************************)
\* C18: for every n in [0, MAX_BYTES], SizeClass::roundUp(n) is the smallest
\* multiple of ALIGNMENT that is >= max(n, ALIGNMENT): a multiple of
\* ALIGNMENT, not below max(n, ALIGNMENT), and the multiple before it is
\* below; in particular roundUp(0) = ALIGNMENT.
C18_RoundUpSmallestMultiple ==
    last.op = "roundUp" =>
        LET n == last.size
            r == last.ret
            least == Max2(n, ALIGNMENT)
        IN /\ n \in 0..MAX_BYTES
           /\ r % ALIGNMENT = 0
           /\ r >= least
           /\ r - ALIGNMENT < least
           /\ (n = 0 => r = ALIGNMENT)

(***************************************************************************)
(* C19                                                                     *)
(***************************************************************************)
\* C19: for every size s in [0, MAX_BYTES], allocate(s) and deallocate(p, s)
\* select the same size-class index; (index + 1) * ALIGNMENT is the smallest
\* multiple of ALIGNMENT >= max(s, ALIGNMENT), i.e. index =
\* round_up(s) / ALIGNMENT - 1; the index is < FREE_LIST_SIZE and the block
\* size (index + 1) * ALIGNMENT is >= s.
C19_SameIndex ==
    last.op \in {"allocate index", "deallocate index"} =>
        LET s == last.size
            index == last.ret
            least == Max2(s, ALIGNMENT)
            round_up == (index + 1) * ALIGNMENT
        IN /\ index = allocateIndex(s)
           /\ index = deallocateIndex(s)
           /\ round_up >= least
           /\ round_up - ALIGNMENT < least
           /\ index >= 0 /\ index < FREE_LIST_SIZE
           /\ blockSize(index) >= s

\* witness: deallocate(p, MAX_BYTES) selected the last list
C19_Witness ==
    /\ last.op = "deallocate index"
    /\ last.size = MAX_BYTES
    /\ last.ret = FREE_LIST_SIZE - 1

(***************************************************************************)
(* C20                                                                     *)
(***************************************************************************)
\* C20: in every reachable state the counter freeListSize_[i] of a thread
\* equals the number of blocks linked in that thread's freeList_[i].
C20_CounterMatchesList ==
    \A t \in Threads, i \in Classes :
        freeListSize_[t][i] = ThreadList(t, i).len

(***************************************************************************)
(* C21                                                                     *)
(***************************************************************************)
\* C21: after every deallocate(ptr, size) with size <= MAX_BYTES returns,
\* the number of blocks linked in the calling thread's free list of that
\* size class is at most the threshold (64).
C21_ListWithinThreshold ==
    (last.op = "deallocate" /\ last.size <= MAX_BYTES /\ pc[last.t] = "idle")
        => ThreadList(last.t, getIndex(last.size)).len <= threshold

(***************************************************************************)
(* C22                                                                     *)
(***************************************************************************)
\* Thread t frees block b and the counter of its class, the new block
\* counted, is above the threshold: returnToCentralCache runs
Spills(t, b) ==
    /\ pc[t] = "idle" /\ ops' # ops
    /\ b.tier = "pool"
    /\ CopiesIn(b, user') < CopiesIn(b, user)
    /\ freeList_'[t] # freeList_[t]
    /\ freeListSize_[t][getIndex(b.size)] + 1 > threshold

\* C22: whenever the spill runs with n = freeListSize_[i] > 1, afterwards
\* the thread's list is exactly the first keep = max(1, n / 4) blocks of the
\* old list in their old order, freeListSize_[i] = keep, and the remaining
\* blocks of the old list have been handed to returnRange for class i.
C22_SpillKeepsQuarter ==
    [][\A t \in Threads : \A b \in BagToSet(user) :
          Spills(t, b) =>
              LET i == getIndex(b.size)
                  n == freeListSize_[t][i] + 1
                  keep == Max2(1, n \div 4)
                  old == <<b.addr>> \o WalkN(mem, freeList_[t][i], keep)
                  rest == IF Len(old) > keep THEN old[keep + 1] ELSE NULL
              IN /\ Len(old) >= keep
                 /\ freeList_'[t][i] = old[1]
                 /\ \A j \in 1..(keep - 1) : Read(mem', old[j]) = old[j + 1]
                 /\ Read(mem', old[keep]) = NULL
                 /\ freeListSize_'[t][i] = keep
                 /\ rest # NULL =>
                        /\ pc'[t] = "return_spin"
                        /\ frame'[t].start = rest
                        /\ frame'[t].index = i]_vars

(***************************************************************************)
(* C23                                                                     *)
(***************************************************************************)
\* Thread t, idle, frees the pool block b in this step (the push and, above
\* the threshold, the cut of returnToCentralCache)
Frees(t, b) ==
    /\ pc[t] = "idle" /\ ops' # ops
    /\ b.tier = "pool"
    /\ CopiesIn(b, user') < CopiesIn(b, user)
    /\ freeList_'[t] # freeList_[t]

\* Thread t, idle, is handed the pool block b from its own list in this step
\* (the pop of allocate)
Pops(t, b) ==
    /\ pc[t] = "idle" /\ pc'[t] = "idle" /\ ops' # ops
    /\ b.tier = "pool"
    /\ CopiesIn(b, user') > CopiesIn(b, user)
    /\ freeList_'[t] # freeList_[t]

\* C23: on one thread, deallocate(a, s) with s <= MAX_BYTES immediately
\* followed by allocate(s') with index(s') = index(s) returns a, with or
\* without a spill: the deallocate leaves a at the head of the list of its
\* class, nothing but the thread's next call changes the thread's lists, and
\* an allocate that finds the list of its class non-empty returns its head.
C23_FreeThenAllocate ==
    [][\A t \in Threads :
          /\ \A b \in BagToSet(user) :
                 Frees(t, b) => freeList_'[t][deallocateIndex(b.size)] = b.addr
          /\ pc[t] \in {"return_spin", "return_cs"} =>
                 freeList_'[t] = freeList_[t]
          /\ (pc[t] = "idle" /\ freeList_'[t] # freeList_[t]) =>
                 \A u \in Threads \ {t} :
                     freeList_'[u] = freeList_[u] /\ pc'[u] = pc[u]
          /\ \A b \in BagToSet(user') :
                 Pops(t, b) => b.addr = freeList_[t][allocateIndex(b.size)]]_vars

\* witness: thread 1 got its first block, freed it with a spill (16 blocks
\* kept) and has the same block back from the next allocate
C23_Witness ==
    /\ last = [t |-> 1, op |-> "allocate", size |-> 32, ret |-> PAGE_SIZE,
               denied |-> FALSE]
    /\ pc[1] = "idle"
    /\ freeListSize_[1][getIndex(32)] = 15
    /\ centralFreeList_[getIndex(32)] # NULL

(***************************************************************************)
(* C24                                                                     *)
(***************************************************************************)
\* C24: when centralFreeList_[index] holds L >= 1 blocks, fetchRange(index,
\* batchNum) with batchNum >= 1 returns the first min(L, batchNum) blocks of
\* the list as a null-terminated chain in their order, and leaves the other
\* blocks in centralFreeList_[index] in their order (null if there are none).
C24_FetchFromList ==
    [][\A t \in Threads :
          (/\ pc[t] = "fetch_cs" /\ pc'[t] = "idle"
           /\ centralFreeList_[frame[t].index] # NULL) =>
              LET index == frame[t].index
                  batchNum == frame[t].batchNum
                  old == WalkN(mem, centralFreeList_[index], batchNum + 1)
                  taken == Min2(Len(old), batchNum)
              IN /\ batchNum >= 1
                 /\ last'.op = "fetchRange" /\ last'.ret = old[1]
                 /\ [start |-> old[1], index |-> index] \in held'
                 /\ \A j \in 1..(taken - 1) : Read(mem', old[j]) = old[j + 1]
                 /\ Read(mem', old[taken]) = NULL
                 /\ centralFreeList_'[index] =
                        IF Len(old) > batchNum THEN old[batchNum + 1] ELSE NULL
                 /\ Stored \subseteq {old[taken]}]_vars

\* witness: fetchRange was asked for MaxBatch blocks of a list that held
\* one, the second block of a carved span, and returned that block alone
C24_Witness ==
    /\ last.op = "fetchRange" /\ last.size = MaxBatch
    /\ \E c \in carved :
           /\ last.ret = c.start + c.size
           /\ centralFreeList_[getIndex(c.size)] = NULL
    /\ Read(mem, last.ret) = NULL

(***************************************************************************)
(* C25                                                                     *)
(***************************************************************************)
\* the pages fetchFromPageCache asks the page tier for
PagesReceived(size) ==
    IF size <= SPAN_PAGES * PAGE_SIZE
    THEN SPAN_PAGES
    ELSE (size + PAGE_SIZE - 1) \div PAGE_SIZE

\* C25: when centralFreeList_[index] is empty and the span request
\* succeeds, fetchRange(index, batchNum) returns a null-terminated chain of
\* exactly alloc = min(batchNum, totalBlocks) contiguous blocks beginning at
\* the span's start, and afterwards centralFreeList_[index] holds exactly the
\* other totalBlocks - alloc blocks of the span as a null-terminated chain
\* (empty if there are none).
C25_FetchCarves ==
    [][\A t \in Threads :
          (/\ pc[t] = "fetch_page" /\ pc'[t] = "idle"
           /\ last'.ret # NULL) =>
              LET index == frame[t].index
                  size == blockSize(index)
                  start == last'.ret
                  totalBlocks == (PagesReceived(size) * PAGE_SIZE) \div size
                  alloc == Min2(frame[t].batchNum, totalBlocks)
              IN /\ centralFreeList_[index] = NULL
                 /\ start \in DOMAIN spanMap_' /\ start \notin DOMAIN spanMap_
                 /\ alloc >= 1
                 /\ \A j \in 1..(alloc - 1) :
                        Read(mem', start + (j - 1) * size) = start + j * size
                 /\ Read(mem', start + (alloc - 1) * size) = NULL
                 /\ centralFreeList_'[index] =
                        IF totalBlocks > alloc THEN start + alloc * size
                        ELSE NULL
                 /\ \A j \in (alloc + 1)..(totalBlocks - 1) :
                        Read(mem', start + (j - 1) * size) = start + j * size
                 /\ totalBlocks > alloc =>
                        Read(mem', start + (totalBlocks - 1) * size) = NULL]_vars

\* witness: a span of two blocks was carved for a request of MaxBatch blocks
\* (both blocks returned, list left empty), and so was a span of the
\* largest class
C25_Witness ==
    /\ last.op = "fetchRange" /\ last.size = MaxBatch
    /\ \E c \in carved :
           /\ c.start = last.ret /\ c.n = 2
           /\ Read(mem, c.start) = c.start + c.size
           /\ centralFreeList_[getIndex(c.size)] = NULL
    /\ \E c \in carved : c.size = MAX_BYTES

(***************************************************************************)
(* C26                                                                     *)
(***************************************************************************)
\* C26: on a central-tier miss the span is carved into totalBlocks =
\* (pagesReceived * PAGE_SIZE) / blockSize blocks, where pagesReceived is
\* SPAN_PAGES when blockSize <= SPAN_PAGES * PAGE_SIZE and
\* ceil(blockSize / PAGE_SIZE) otherwise, and totalBlocks >= 1 for every
\* size class in [0, FREE_LIST_SIZE).
C26_TotalBlocks ==
    last.op = "totalBlocks" =>
        LET index == getIndex(last.size)
            size == blockSize(index)
        IN /\ index \in 0..(FREE_LIST_SIZE - 1)
           /\ last.ret = (PagesReceived(size) * PAGE_SIZE) \div size
           /\ last.ret >= 1

(***************************************************************************)
(* C27                                                                     *)
(***************************************************************************)
\* C27: after returnRange(start, size, index) is called by the thread tier
\* with a null-terminated chain of k blocks, centralFreeList_[index] is that
\* chain (all k blocks, in order) followed by the previous contents of the
\* list: the head is start, the last block of the chain is linked to the
\* previous head and no other link word has changed.
C27_ReturnSplices ==
    [][\A t \in Threads :
          (pc[t] = "return_cs" /\ pc'[t] = "idle") =>
              LET index == frame[t].index
                  chain == WalkN(mem, frame[t].start, 2 * threshold)
                  end == chain[Len(chain)]
              IN /\ Len(chain) < 2 * threshold
                 /\ centralFreeList_'[index] = frame[t].start
                 /\ Read(mem', end) = centralFreeList_[index]
                 /\ Stored \subseteq {end}]_vars

(***************************************************************************)
(* C28                                                                     *)
(***************************************************************************)
\* a call of the central tier that returns in the step it is made in
Rejected == ops' # ops /\ pc' = pc

\* C28: fetchRange called with index >= FREE_LIST_SIZE or batchNum = 0
\* returns null, and returnRange called with a null start or index >=
\* FREE_LIST_SIZE returns, without acquiring a lock and without changing a
\* central free list: no such call goes on to the spin loop, and a call that
\* returns at once returns null and leaves locks, list heads, link words and
\* the caller's chains as they were.
C28_RejectsLeaveCentral ==
    /\ [](\A t \in Threads :
              /\ pc[t] # "idle" => frame[t].index < FREE_LIST_SIZE
              /\ pc[t] \in {"fetch_spin", "fetch_cs", "fetch_page"} =>
                     frame[t].batchNum # 0
              /\ pc[t] \in {"return_spin", "return_cs"} =>
                     frame[t].start # NULL)
    /\ [][Rejected =>
             /\ last'.ret = NULL
             /\ locks_' = locks_
             /\ centralFreeList_' = centralFreeList_
             /\ mem' = mem
             /\ held' = held]_vars

\* witness: returnRange has returned at once while the caller holds a chain
\* and a central list is not empty; no lock is set
C28_Witness ==
    /\ last.op = "returnRange"
    /\ held # {}
    /\ \E i \in Classes : centralFreeList_[i] # NULL
    /\ \A i \in Classes : ~locks_[i]

(***************************************************************************)
(* C29                                                                     *)
(***************************************************************************)
\* C29: fetchRange and returnRange on size class i never modify
\* centralFreeList_[j], the blocks linked in it or locks_[j] for j # i, and
\* a thread holding or waiting for locks_[i] never keeps another thread
\* from completing a fetchRange or returnRange on a class j # i: a thread
\* waits at a spin loop only while some other thread is inside the critical
\* section of the very same class.
C29_ClassesIndependent ==
    /\ [](\A u \in Threads :
              (pc[u] \in {"fetch_spin", "return_spin"}
                   /\ locks_[frame[u].index]) =>
                  \E t \in Threads \ {u} : Holds(t, frame[u].index))
    /\ [][\A t \in Threads :
             (pc[t] # "idle" /\ pc'[t] # pc[t]) =>
                 \A j \in Classes \ {frame[t].index} :
                     /\ locks_'[j] = locks_[j]
                     /\ ~TouchesCentral(j)]_vars

\* witness: two threads are inside the critical sections of two different
\* classes at the same time, one of them in front of a non-empty list
C29_Witness ==
    \E t, u \in Threads :
        /\ pc[t] \in {"fetch_cs", "fetch_page", "return_cs"}
        /\ pc[u] = "fetch_cs"
        /\ frame[t].index # frame[u].index
        /\ centralFreeList_[frame[u].index] # NULL
        /\ locks_[frame[t].index] /\ locks_[frame[u].index]

(***************************************************************************)
(* C30                                                                     *)
(***************************************************************************)
\* a call of allocateSpan by the page-tier caller: it gives up no span
AllocatesSpan == ops' # ops /\ held \subseteq held'

\* C30: allocateSpan returns null only when the OS mapping is denied: in
\* every state reachable through allocateSpan / deallocateSpan sequences a
\* call of allocateSpan completes, and it returns null only if no key of
\* freeSpans_ could serve the request and the OS mapped nothing.
C30_NullOnlyOnDenial ==
    [][AllocatesSpan =>
          /\ ~crashed'
          /\ held' = held =>
                 /\ \A k \in DOMAIN freeSpans_ : k < MaxSpanPages
                 /\ brk' = brk]_vars

(***************************************************************************)
(* C31                                                                     *)
(***************************************************************************)
\* C31: in every reachable page-tier state every key present in freeSpans_
\* maps to a non-null head span, so the lookup of allocateSpan never selects
\* a null span.
C31_NoNullHead ==
    /\ ~crashed
    /\ \A k \in DOMAIN freeSpans_ : freeSpans_[k] # NULL

(***************************************************************************)
(* C32                                                                     *)
(***************************************************************************)
\* the Span descriptors linked in the lists of the map fs
FreeSpans(sp, fs) == UNION {SpanChain(sp, fs[k]) : k \in DOMAIN fs}

\* the page-tier caller gives the span h back in this step
DeallocatesSpan(h) == ops' # ops /\ h \in held /\ h \notin held'

\* C32: after deallocateSpan(address, numPages), if the span starting at
\* address + numPages * PAGE_SIZE was free at the time of the call, the two
\* are merged: freeSpans_ then contains one span at address whose page count
\* is the sum of both, and the neighbour has no entry in spanMap_ and is in
\* no freeSpans_ list.
C32_MergesRightNeighbour ==
    [][\A h \in held : DeallocatesSpan(h) =>
          \A nb \in FreeSpans(spans, freeSpans_) :
              spans[nb].pageAddr = h.addr + h.numPages * PAGE_SIZE =>
                  /\ \E s \in FreeSpans(spans', freeSpans_') :
                         /\ spans'[s].pageAddr = h.addr
                         /\ spans'[s].numPages = h.numPages + spans[nb].numPages
                  /\ \A s \in FreeSpans(spans', freeSpans_') :
                         spans'[s].pageAddr # spans[nb].pageAddr
                  /\ spans[nb].pageAddr \notin DOMAIN spanMap_']_vars

(***************************************************************************)
(* C33                                                                     *)
(***************************************************************************)
\* the free spans that can serve a request of numPages pages
Fitting(numPages) ==
    {s \in FreeSpans(spans, freeSpans_) : spans[s].numPages >= numPages}

\* C33: when a free span with page count >= numPages exists, allocateSpan
\* takes the head of the list with the smallest such page count, returns
\* exactly numPages pages starting at that span's address, leaves a free
\* remainder of (old count - numPages) pages behind it if the span was
\* larger, and does not ask the OS; it asks the OS only when no free span
\* has page count >= numPages.
C33_BestFitHead ==
    [][\A n \in 1..MaxSpanPages, os \in OsAnswers :
          PageAllocate(n, os) =>
              /\ Fitting(n) # {} =>
                     LET k == Min({spans[s].numPages : s \in Fitting(n)}) IN
                     /\ ~crashed'
                     /\ brk' = brk
                     /\ k \in DOMAIN freeSpans_ /\ freeSpans_[k] # NULL
                     /\ LET s == freeSpans_[k]
                            addr == spans[s].pageAddr
                        IN /\ held' = held \cup {[addr |-> addr, numPages |-> n]}
                           /\ addr \in DOMAIN spanMap_'
                           /\ spans'[spanMap_'[addr]].numPages = n
                           /\ \A f \in FreeSpans(spans', freeSpans_') :
                                  spans'[f].pageAddr # addr
                           /\ spans[s].numPages > n =>
                                  \E f \in FreeSpans(spans', freeSpans_') :
                                      /\ spans'[f].pageAddr = addr + n * PAGE_SIZE
                                      /\ spans'[f].numPages = spans[s].numPages - n
              /\ brk' # brk => Fitting(n) = {}]_vars

(***************************************************************************)
(* C34                                                                     *)
(***************************************************************************)
\* C34: deallocateSpan called with an address that has no entry in spanMap_
\* returns without changing freeSpans_ or spanMap_ (and no span descriptor).
C34_UnknownAddressIgnored ==
    [][\A ptr \in PageAddrs, n \in 1..MaxSpanPages :
          PageDeallocateUnknown(ptr, n) =>
              /\ freeSpans_' = freeSpans_
              /\ spanMap_' = spanMap_
              /\ spans' = spans
              /\ ~crashed']_vars

\* an unknown address was passed while spans were free and others held: the
\* address lies inside a held span, or is where a free remainder starts
C34_Witness ==
    /\ last.op = "deallocateSpan"
    /\ last.ret # NULL
    /\ last.ret \notin DOMAIN spanMap_
    /\ DOMAIN freeSpans_ # {}
    /\ \/ \E h \in held : h.addr < last.ret /\ last.ret < h.addr + h.numPages * PAGE_SIZE
       \/ \E f \in FreeSpans(spans, freeSpans_) : spans[f].pageAddr = last.ret

(***************************************************************************)
(* C35                                                                     *)
(***************************************************************************)
\* C35: for every block size in {8, 16, ..., MAX_BYTES} getBatchNum returns
\* max(1, min(base, 4096 / blockSize)), where base is 64, 32, 16, 8, 4, 2, 1
\* for block sizes <= 32, <= 64, <= 128, <= 256, <= 512, <= 1024, > 1024;
\* the result is always >= 1.
C35_BatchNumTable ==
    last.op = "getBatchNum" =>
        LET size == last.size
            base == CASE size <= 32 -> 64
                      [] 32 < size /\ size <= 64 -> 32
                      [] 64 < size /\ size <= 128 -> 16
                      [] 128 < size /\ size <= 256 -> 8
                      [] 256 < size /\ size <= 512 -> 4
                      [] 512 < size /\ size <= 1024 -> 2
                      [] 1024 < size -> 1
            quot == MAX_BATCH_SIZE \div size
            least == IF base < quot THEN base ELSE quot
        IN /\ last.ret = (IF least > 1 THEN least ELSE 1)
           /\ last.ret >= 1

\* getBatchNum was called with a block size above 4096, where the quotient
\* is 0 and only the clamp keeps the result at 1
C35_Witness ==
    /\ last.op = "getBatchNum"
    /\ last.size > MAX_BATCH_SIZE
    /\ last.ret = 1

(***************************************************************************)
(* C39                                                                     *)
(***************************************************************************)
\* C39: in every reachable state a thread's freeListSize_[i] is at least the
\* number of blocks linked in its freeList_[i], so the decrement of the fast
\* path of allocate never takes the counter below zero.
C39_CounterCoversList ==
    \A t \in Threads, i \in Classes :
        /\ freeListSize_[t][i] >= ThreadList(t, i).len
        /\ freeListSize_[t][i] >= 0

\* the fast path of allocate has popped the first block of a refilled list:
\* the counter was decremented and is still above the length of the list
C39_Witness ==
    /\ last.op = "allocate" /\ last.ret # NULL /\ last.size <= MAX_BYTES
    /\ pc[last.t] = "idle"
    /\ LET i == getIndex(roundUp(last.size))
           batchNum == getBatchNum(blockSize(i))
       IN /\ batchNum > 2
          /\ freeListSize_[last.t][i] = batchNum - 1
          /\ ThreadList(last.t, i).len = batchNum - 2

(***************************************************************************)
(* C40                                                                     *)
(***************************************************************************)
\* the span descriptors linked in the list of key k, with repetitions: the
\* list walked for as many links as there are descriptors, plus one
RECURSIVE SpanWalk(_, _, _)
SpanWalk(sp, head, n) ==
    IF head = NULL \/ n = 0 THEN <<>>
    ELSE <<head>> \o SpanWalk(sp, sp[head].next, n - 1)

FreeList(k) == SpanWalk(spans, freeSpans_[k], Cardinality(DOMAIN spans) + 1)

\* C40: in every reachable page-tier state every span linked in the list
\* freeSpans_[k] has numPages = k, and every free span is linked in exactly
\* one list of freeSpans_, exactly once.
C40_FreeListsKeyed ==
    /\ \A k \in DOMAIN freeSpans_ :
           LET l == FreeList(k) IN
           /\ \A j \in 1..Len(l) : spans[l[j]].numPages = k
           /\ \A j1, j2 \in 1..Len(l) : l[j1] = l[j2] => j1 = j2
    /\ \A k1, k2 \in DOMAIN freeSpans_ :
           k1 # k2 =>
               \A j1 \in 1..Len(FreeList(k1)), j2 \in 1..Len(FreeList(k2)) :
                   FreeList(k1)[j1] # FreeList(k2)[j2]
    /\ \A s \in DOMAIN spans :
           (\A h \in held : h.addr # spans[s].pageAddr) =>
               \E k \in DOMAIN freeSpans_ :
                   \E j \in 1..Len(FreeList(k)) : FreeList(k)[j] = s

\* spans were merged and split: a free span larger than any request came out
\* of a merge, and a split has left a free remainder (it has no spanMap_
\* entry)
C40_Witness ==
    /\ Cardinality(FreeSpans(spans, freeSpans_)) >= 2
    /\ \E s \in FreeSpans(spans, freeSpans_) :
           spans[s].pageAddr \notin DOMAIN spanMap_
    /\ \E s \in FreeSpans(spans, freeSpans_) :
           spans[s].numPages > MaxSpanPages

(***************************************************************************)
(* C38                                                                     *)
(***************************************************************************)
\* C38: under concurrent allocate / deallocate on one v1 pool no slot is
\* handed to a second caller while a first caller still holds it, whatever
\* happens between a popper's read of head->next and its exchange.
C38_SlotHandedOnce ==
    \A s \in Slots : slotUser[s] <= 1

(***************************************************************************)
(* C36                                                                     *)
(***************************************************************************)
\* C36: in the span-tracking central tier a span is handed back to the page
\* tier only when all its blocks are free in the central list: no block that
\* a caller still holds lies in a span that is free in the page tier.
C36_NoHeldBlockInFreeSpan ==
    \A h \in held : \A s \in FreeSpans(spans, freeSpans_) :
        ~(/\ h.start >= spans[s].pageAddr
          /\ h.start < spans[s].pageAddr + spans[s].numPages * PAGE_SIZE)

(***************************************************************************)
(* C37                                                                     *)
(***************************************************************************)
\* the trackers whose span this step hands back to the page tier
HandedBack ==
    {i \in 1..Len(spanTrackers_) :
        LET a == spanTrackers_[i].spanAddr IN
        /\ a \in DOMAIN spanMap_
        /\ spanMap_[a] \notin FreeSpans(spans, freeSpans_)
        /\ spanMap_[a] \in FreeSpans(spans', freeSpans_')}

\* C37: when returnRange removes the blocks of fully free spans from
\* centralFreeList_[index], the blocks of all other spans stay in the list
\* in their order, wherever the removed blocks were linked.
C37_ExciseKeepsOthers ==
    [][\A h \in held :
          (ops' # ops /\ h \notin held' /\ HandedBack # {}) =>
              LET old == <<h.start>> \o
                             BlockList(mem, centralFreeList_[h.index])
                  others(b) == \A i \in HandedBack : ~InSpan(spanTrackers_[i], b)
              IN BlockList(mem', centralFreeList_'[h.index])
                     = SelectSeq(old, others)]_vars

====
